---- MODULE Spec2Model ----
(***************************************************************************)
(* Model of src/app.py: one scrape job (the dict start_scrape stores in    *)
(* scrape_jobs), the background thread scrape_reviews_with_progress that   *)
(* drives it, and the browser_event handler that feeds its input queue.    *)
(* The thread is modelled statement group by statement group; pc is its    *)
(* position.  A browser call that can raise is a nondeterministic choice   *)
(* between returning and raising.                                          *)
(***************************************************************************)
EXTENDS Integers, Sequences, FiniteSets, TLC

\* ---------------------------------------------------------------- bounds
\* largest max_pages a start request carries in the model
MaxPagesBound == 2
\* capacity of the modelled input queue (queue.Queue() is unbounded)
MaxQueue == 2
\* captcha_timeout, counted in clock units of the model
CaptchaTicks == 2

\* ------------------------------------------------------ program constants
\* r['review_text'][:50]
KeyLen == 50

Min(a, b) == IF a < b THEN a ELSE b

\* ------------------------------------------------------------- messages
MsgStarting == "Starting..."
MsgLaunching == "Launching browser..."
MsgNoPlaywright == "Playwright not installed."
MsgLoading == "Loading page..."
MsgPleaseSolve == "Please solve the CAPTCHA if shown..."
MsgNotSolved == "CAPTCHA was not solved in time. Please try again."
MsgSolved == "CAPTCHA solved! Scraping reviews..."
MsgFinding == "Finding reviews section..."
MsgNoMorePages == "No more pages found"
MsgError == "Error: browser fault"
MsgScraping(n) == "Scraping page " \o ToString(n) \o "..."
MsgDone(n) == "Done! Found " \o ToString(n) \o " reviews"

\* --------------------------------------------------------------- inputs
\* max_pages = int(data.get('max_pages', 50)): any integer, not validated
MaxPagesInputs == (0 - 1) .. MaxPagesBound

\* events the frontend posts to /browser-event
Events == {"click", "keydown"}

\* values page.evaluate returns for the pagination click: the name of the
\* strategy that clicked, or "null"
NavResults == {"next_text", "null"}

\* values page.evaluate returns for the gate check; "null" is JS null
GateResults == {"reviews", "ratings", "product", "null"}

\* review texts are sequences of characters (small integers)
LongText(c) == [i \in 1 .. 61 |-> IF i <= 60 THEN 1 ELSE c]
MarkedText(k) == [i \in 1 .. 55 |-> IF i = k THEN 2 ELSE 1]
ShortText == <<7, 8, 9>>

Review(u, s, t) == [username |-> u, rating |-> s, review_text |-> t]
rA1 == Review("a**1", 5, LongText(2))
rA2 == Review("b**2", 4, LongText(3))
rB == Review("c**3", 3, ShortText)
rC == Review("d**4", 2, MarkedText(50))
rD == Review("e**5", 1, MarkedText(51))

\* what the extraction script can return for one page
PageChoices ==
    { <<>>, <<rA1, rB>>, <<rA2, rC>>, <<rD, rB, rA1>>, <<rA1, rA2>> }

\* ------------------------------------------------------- pure functions
\* a key that takes the whole text instead of its first 50 characters
KeyOfWholeText(r) == r.review_text

\* r['review_text'][:50] if r['review_text'] else ''
KeyOf(r) ==
    IF r.review_text # <<>>
    THEN SubSeq(r.review_text, 1, Min(Len(r.review_text), KeyLen))
    ELSE <<>>

\* a dedup loop that forgets seen_reviews.add(key)
RECURSIVE DedupNoAdd(_, _, _)
DedupNoAdd(seen, list, page) ==
    IF page = <<>>
    THEN [seen |-> seen, list |-> list]
    ELSE LET r == Head(page)
             key == KeyOf(r)
         IN IF key # <<>> /\ key \notin seen
            THEN DedupNoAdd(seen, Append(list, r), Tail(page))
            ELSE DedupNoAdd(seen, list, Tail(page))

\* a dedup loop that inserts at the front instead of appending
RECURSIVE DedupPrepend(_, _, _)
DedupPrepend(seen, list, page) ==
    IF page = <<>>
    THEN [seen |-> seen, list |-> list]
    ELSE LET r == Head(page)
             key == KeyOf(r)
         IN IF key # <<>> /\ key \notin seen
            THEN DedupPrepend(seen \cup {key}, <<r>> \o list, Tail(page))
            ELSE DedupPrepend(seen, list, Tail(page))

\* the dedup loop over page_reviews
RECURSIVE Dedup(_, _, _)
Dedup(seen, list, page) ==
    IF page = <<>>
    THEN [seen |-> seen, list |-> list]
    ELSE LET r == Head(page)
             key == KeyOf(r)
         IN IF key # <<>> /\ key \notin seen
            THEN Dedup(seen \cup {key}, Append(list, r), Tail(page))
            ELSE Dedup(seen, list, Tail(page))

\* a progress that counts the pages left instead of the pages done
ProgressOfRemaining(cp, mp) == 100 - ((cp * 100) \div mp)

\* int((current_page / max_pages) * 100); the float expression equals the
\* integer floor for every max_pages the model uses
ProgressOf(cp, mp) == (cp * 100) \div mp

\* ------------------------------------------------ review card extractor
\* A rating anchor with what the script reads around it.  label is the number
\* the regex /Rating:\s*(\d+(?:\.\d+)?)\s*out of 5/ captures from aria-label,
\* in tenths, or NoNumber when the regex does not match; walk tells whether
\* the walk up the parents ended on an element ("found") or ran out of
\* parents ("none"); throws tells whether the script raises inside its
\* try block for this anchor; lines are the trimmed non-empty lines of the
\* container's innerText.  A line carries its characters and the class of
\* pattern its text matches:
\*   "masked"   ^[A-Za-z0-9]\*{2,}[A-Za-z0-9]$      "isodate"  ^\d{4}-\d{2}-\d{2}$
\*   "reldate"  ^\d+\s*(day|week|...)s?\s*ago       "number"   ^\d+$
\*   "verified" ^(Verified|Helpful|Reply|...)       "rating"   ^Rating:
\*   "item"     ^Item:                               "variant"  ^(Color|Size|...):
\*   "plain"    none of these
NoNumber == 0 - 1
Txt(n, c) == [i \in 1 .. n |-> c]
Line(c, t) == [cls |-> c, text |-> t]
Card(l, w, x, ls) == [label |-> l, walk |-> w, throws |-> x, lines |-> ls]

\* line.length < 5 is skipped
MinLineLen == 5
\* firstLine.length < 30
MaxNameLen == 30
\* 'Item: ' is cut off the line: 'Item:' and the blanks after it
ItemPrefixLen == 6

\* '(no text)'
Placeholder == <<40, 110, 111, 32, 116, 101, 120, 116, 41>>
\* 'Anonymous'
Anonymous == <<65, 110, 111, 110, 121, 109, 111, 117, 115>>

\* the classes every skipPatterns entry stands for
SkipClasses == {"verified", "item", "variant", "isodate", "reldate",
                "number", "rating", "masked"}

\* index of the first line of one of the classes, 0 when there is none
FirstOf(lines, classes) ==
    IF \E i \in DOMAIN lines : lines[i].cls \in classes
    THEN CHOOSE i \in DOMAIN lines :
            /\ lines[i].cls \in classes
            /\ \A j \in 1 .. (i - 1) : lines[j].cls \notin classes
    ELSE 0

\* ratingMatch ? Math.round(parseFloat(ratingMatch[1])) : 0
RatingOf(label) == IF label = NoNumber THEN 0 ELSE (label + 5) \div 10

\* masked username, else a short first line that does not start with a
\* digit and has no 'Rating' in it, else 'Anonymous'
UsernameOf(lines) ==
    LET m == FirstOf(lines, {"masked"})
    IN IF m # 0 THEN lines[m].text
       ELSE IF /\ lines # <<>>
               /\ Len(lines[1].text) < MaxNameLen
               /\ Len(lines[1].text) > 1
               /\ lines[1].cls \notin {"isodate", "reldate", "number", "rating"}
            THEN lines[1].text
            ELSE Anonymous

\* ISO date, else relative date, else ''
DateOf(lines) ==
    LET d == FirstOf(lines, {"isodate"})
        r == FirstOf(lines, {"reldate"})
    IN IF d # 0 THEN lines[d].text
       ELSE IF r # 0 THEN lines[r].text ELSE <<>>

\* the first 'Item:' or 'Color:/Size:/Variant:/Style:' line decides
ItemVariantOf(lines) ==
    LET k == FirstOf(lines, {"item", "variant"})
    IN IF k = 0 THEN <<>>
       ELSE IF lines[k].cls = "variant" THEN lines[k].text
       ELSE LET v == SubSeq(lines[k].text, ItemPrefixLen + 1,
                            Len(lines[k].text))
            IN IF v = <<>> /\ k + 1 \in DOMAIN lines
               THEN lines[k + 1].text ELSE v

\* the loop over lines that keeps the longest line that is long enough, is
\* not the username, the item variant or the date and matches no skip pattern
RECURSIVE BodyFrom(_, _, _, _, _)
BodyFrom(lines, username, variant, date, best) ==
    IF lines = <<>> THEN best
    ELSE LET l == Head(lines)
             take == /\ Len(l.text) >= MinLineLen
                     /\ l.text # username
                     /\ l.text # variant
                     /\ l.text # date
                     /\ l.cls \notin SkipClasses
                     /\ Len(l.text) > Len(best)
         IN BodyFrom(Tail(lines), username, variant, date,
                     IF take THEN l.text ELSE best)

\* a line loop without the length check
RECURSIVE BodyFromAnyLength(_, _, _, _, _)
BodyFromAnyLength(lines, username, variant, date, best) ==
    IF lines = <<>> THEN best
    ELSE LET l == Head(lines)
             take == /\ l.text # username
                     /\ l.text # variant
                     /\ l.text # date
                     /\ l.cls \notin SkipClasses
                     /\ Len(l.text) > Len(best)
         IN BodyFromAnyLength(Tail(lines), username, variant, date,
                              IF take THEN l.text ELSE best)

\* the body of the extraction script's forEach for one anchor without the
\* placeholder: review_text: reviewText
ExtractCardNoPlaceholder(card) ==
    IF card.throws \/ card.walk = "none" THEN <<>>
    ELSE LET rating == RatingOf(card.label)
             username == UsernameOf(card.lines)
             date == DateOf(card.lines)
             variant == ItemVariantOf(card.lines)
             text == BodyFrom(card.lines, username, variant, date, <<>>)
         IN IF Len(text) >= 1 \/ rating > 0
            THEN << [username |-> username, rating |-> rating,
                     review_text |-> text,
                     date |-> date, item_variant |-> variant] >>
            ELSE <<>>

\* the extraction script with BodyFromAnyLength as its line loop
ExtractCardAnyLength(card) ==
    IF card.throws \/ card.walk = "none" THEN <<>>
    ELSE LET rating == RatingOf(card.label)
             username == UsernameOf(card.lines)
             date == DateOf(card.lines)
             variant == ItemVariantOf(card.lines)
             text == BodyFromAnyLength(card.lines, username, variant, date,
                                       <<>>)
         IN IF Len(text) >= 1 \/ rating > 0
            THEN << [username |-> username, rating |-> rating,
                     review_text |-> IF text # <<>> THEN text ELSE Placeholder,
                     date |-> date, item_variant |-> variant] >>
            ELSE <<>>

\* the body of the extraction script's forEach for one anchor: nothing when
\* the script raised (catch (e) {}) or found no container, else at most one
\* review
ExtractCard(card) ==
    IF card.throws \/ card.walk = "none" THEN <<>>
    ELSE LET rating == RatingOf(card.label)
             username == UsernameOf(card.lines)
             date == DateOf(card.lines)
             variant == ItemVariantOf(card.lines)
             text == BodyFrom(card.lines, username, variant, date, <<>>)
         IN IF Len(text) >= 1 \/ rating > 0
            THEN << [username |-> username, rating |-> rating,
                     review_text |-> IF text # <<>> THEN text ELSE Placeholder,
                     date |-> date, item_variant |-> variant] >>
            ELSE <<>>

\* ratingElements.forEach(...): the reviews array of one page
RECURSIVE ExtractPage(_)
ExtractPage(dom) ==
    IF dom = <<>> THEN <<>>
    ELSE ExtractCard(Head(dom)) \o ExtractPage(Tail(dom))

\* lines and anchors the extraction pipeline is exercised on
lMasked == Line("masked", <<97, 42, 42, 49>>)
lDate == Line("isodate", Txt(10, 50))
lAgo == Line("reldate", Txt(10, 51))
lVerified == Line("verified", Txt(17, 86))
lItem == Line("item", Txt(6, 73) \o Txt(3, 82))
lName == Line("plain", Txt(3, 66))
lTiny == Line("plain", Txt(3, 111))
lFour == Line("plain", Txt(4, 102))
lFive == Line("plain", Txt(5, 71))
lBody12 == Line("plain", Txt(12, 120))
lBody20 == Line("plain", Txt(20, 121))

cFive == Card(50, "found", FALSE, <<lMasked, lDate, lBody20>>)
cHalf == Card(45, "found", FALSE, <<lName, lAgo, lItem, lBody12, lFour>>)
cTinyNoRating == Card(NoNumber, "found", FALSE, <<lMasked, lDate, lTiny>>)
cTinyRated == Card(30, "found", FALSE, <<lMasked, lTiny>>)
cSeven == Card(70, "found", FALSE, <<lMasked, lDate, lBody12>>)
cLowFive == Card(4, "found", FALSE, <<lDate, lFive>>)
cMetaOnly == Card(0, "found", FALSE, <<lVerified, lItem, lAgo>>)
cNoContainer == Card(50, "none", FALSE, <<>>)
cThrows == Card(50, "found", TRUE, <<lMasked, lBody20>>)

XCards == {cFive, cHalf, cTinyNoRating, cTinyRated, cSeven, cLowFive,
           cMetaOnly, cNoContainer, cThrows}

\* largest number of rating anchors on a page of the extraction pipeline
MaxCards == 3

RECURSIVE SeqsUpTo(_, _)
SeqsUpTo(S, n) ==
    IF n = 0 THEN {<<>>}
    ELSE LET shorter == SeqsUpTo(S, n - 1)
         IN shorter \cup {Append(q, e) : q \in shorter, e \in S}

XDoms == SeqsUpTo(XCards, MaxCards)

\* ------------------------------------------------------ gate classifier
\* What the gate script reads from the page: the number of elements whose
\* aria-label has both 'Rating:' and 'out of 5 stars' (canon), the number of
\* further elements whose aria-label has 'Rating' (other), the length of the
\* trimmed text of the first h1 (NoHeading without h1), whether an element
\* with a price class exists, the gate keywords the lower-cased title
\* includes, and whether an add-to-cart control exists.
NoHeading == 0 - 1
GateKeywords == {"security", "verify", "captcha"}

\* stars.length >= 3
StarsMin == 3
\* h1.innerText.trim().length > 5
HeadingMin == 5

\* a script that looks for the add-to-cart control first
GateClassifyCartFirst(dom) ==
    IF dom.cart THEN "product"
    ELSE IF dom.canon > 0 THEN "reviews"
    ELSE IF dom.canon + dom.other >= StarsMin THEN "ratings"
    ELSE IF /\ dom.h1 # NoHeading
            /\ dom.h1 > HeadingMin
            /\ dom.price
            /\ dom.title = {}
         THEN "product"
    ELSE "null"

\* the gate script: 'reviews', 'ratings', 'product' or null
GateClassify(dom) ==
    IF dom.canon > 0 THEN "reviews"
    ELSE IF dom.canon + dom.other >= StarsMin THEN "ratings"
    ELSE IF /\ dom.h1 # NoHeading
            /\ dom.h1 > HeadingMin
            /\ dom.price
            /\ dom.title = {}
         THEN "product"
    ELSE IF dom.cart THEN "product"
    ELSE "null"

\* largest numbers of rating-labelled elements on a page given to the gate
\* script
MaxCanon == 1
MaxOther == 3

\* the pages the gate script is exercised on
GateDoms ==
    [canon : 0 .. MaxCanon, other : 0 .. MaxOther,
     h1 : {NoHeading, HeadingMin, HeadingMin + 1},
     price : BOOLEAN, title : SUBSET GateKeywords, cart : BOOLEAN]

\* -------------------------------------------------- pagination navigator
\* An element of the page as the click script sees it: tag is "button" for
\* button, a and [role="button"], "span" for span, "div" for li and div; text
\* is what its trimmed text is: "next" (matches /\bnext\b/i), "target" (the
\* number of the next page), "current" (the number of the current page),
\* "arrow" (one of > › » → ▶) or "other"; aria_next: its aria-label includes
\* 'next'; leaf: it has no child elements; w, h, top: its bounding rectangle;
\* disabled: the disabled property or attribute; aria_disabled:
\* aria-disabled="true"; class_disabled: the class 'disabled'; active: bold,
\* class 'active' or aria-current.
El(tg, tx, an, lf, w, h, tp, ds, ad, cd, ac) ==
    [tag |-> tg, text |-> tx, aria_next |-> an, leaf |-> lf, w |-> w, h |-> h,
     top |-> tp, disabled |-> ds, aria_disabled |-> ad, class_disabled |-> cd,
     active |-> ac]

\* rect.top > 200
TopMin == 200
\* rect.width < 100 of the page-number buttons
PageBtnMaxWidth == 100
\* rect.width < 80 of the page-number spans
SpanMaxWidth == 80
\* r.width < 80 && r.height < 60 && r.top > 300 of the small buttons
SmallMaxWidth == 80
SmallMaxHeight == 60
SmallTopMin == 300

\* rect.width > 0 && rect.height > 0 && rect.top > 200
Visible(el) == el.w > 0 /\ el.h > 0 /\ el.top > TopMin

\* el.disabled || el.getAttribute('aria-disabled') === 'true'
IsDisabled(el) == el.disabled \/ el.aria_disabled

\* the first of the indices in S, 0 if there is none: a loop over the page
\* returns at the first element that passes its tests
FirstIndex(S) ==
    IF S = {} THEN 0 ELSE CHOOSE i \in S : \A j \in S : i <= j

\* Strategy 1: a clickable whose text contains "Next"
NextTextOk(el) ==
    /\ el.tag = "button" /\ el.text = "next" /\ Visible(el)
    /\ ~(IsDisabled(el) \/ el.class_disabled)

\* Strategy 2: the clickable with the number of the next page
PageNumberOk(el) ==
    /\ el.tag = "button" /\ el.text = "target" /\ Visible(el)
    /\ el.w < PageBtnMaxWidth
    /\ ~IsDisabled(el)

\* ... or a span, li or div without children with that number
PageNumberSpanOk(el) ==
    /\ el.tag \in {"span", "div"} /\ el.text = "target" /\ el.leaf
    /\ Visible(el)
    /\ el.w < SpanMaxWidth

\* Strategy 3: aria-label containing "next"
AriaNextOk(el) ==
    /\ el.tag = "button" /\ el.aria_next /\ Visible(el)
    /\ ~IsDisabled(el)

\* Strategy 4: arrow characters
ArrowCharOk(el) ==
    /\ el.tag = "button" /\ el.text = "arrow" /\ Visible(el)
    /\ ~IsDisabled(el)

\* Strategy 5: the indices of the small buttons, in page order
RECURSIVE SmallBtns(_, _)
SmallBtns(dom, i) ==
    IF i > Len(dom) THEN <<>>
    ELSE IF /\ dom[i].tag \in {"button", "span"}
            /\ dom[i].w > 0 /\ dom[i].w < SmallMaxWidth
            /\ dom[i].h > 0 /\ dom[i].h < SmallMaxHeight
            /\ dom[i].top > SmallTopMin
         THEN <<i>> \o SmallBtns(dom, i + 1)
         ELSE SmallBtns(dom, i + 1)

\* ... the small button after the first active one that shows the current
\* page, has a successor and whose successor is not disabled; 0 if none
ActiveSibling(dom) ==
    LET sb == SmallBtns(dom, 1)
        ok(i) == /\ dom[sb[i]].text = "current"
                 /\ dom[sb[i]].active
                 /\ i + 1 <= Len(sb)
                 /\ ~IsDisabled(dom[sb[i + 1]])
    IN IF \E i \in DOMAIN sb : ok(i)
       THEN sb[(CHOOSE i \in DOMAIN sb :
                   ok(i) /\ \A j \in 1 .. (i - 1) : ~ok(j)) + 1]
       ELSE 0

\* the element each loop of the script stops at
FoundNextText(dom) == FirstIndex({i \in DOMAIN dom : NextTextOk(dom[i])})
FoundPageNumber(dom) == FirstIndex({i \in DOMAIN dom : PageNumberOk(dom[i])})
FoundPageNumberSpan(dom) == FirstIndex({i \in DOMAIN dom : PageNumberSpanOk(dom[i])})
FoundAriaNext(dom) == FirstIndex({i \in DOMAIN dom : AriaNextOk(dom[i])})
FoundArrowChar(dom) == FirstIndex({i \in DOMAIN dom : ArrowCharOk(dom[i])})

\* what each strategy finds on the page, in the order the script tries them
NavFound(dom) ==
    << [name |-> "next_text", el |-> FoundNextText(dom)],
       [name |-> "page_number", el |-> FoundPageNumber(dom)],
       [name |-> "page_number_span", el |-> FoundPageNumberSpan(dom)],
       [name |-> "aria_next", el |-> FoundAriaNext(dom)],
       [name |-> "arrow_char", el |-> FoundArrowChar(dom)],
       [name |-> "active_sibling", el |-> ActiveSibling(dom)] >>

\* the click script: the elements it clicked, in order, and what it returns
RECURSIVE NavFrom(_, _)
NavFrom(found, k) ==
    IF k > Len(found) THEN [result |-> "null", clicks |-> <<>>]
    ELSE IF found[k].el # 0
         THEN [result |-> found[k].name, clicks |-> <<found[k].el>>]
         ELSE NavFrom(found, k + 1)

NavClick(dom) == NavFrom(NavFound(dom), 1)

\* the elements the click script is exercised on
NavEls ==
    { \* a 'Next' button
      El("button", "next", FALSE, TRUE, 50, 30, 350, FALSE, FALSE, FALSE, FALSE),
      \* a 'Next' button with the class 'disabled'
      El("button", "next", FALSE, TRUE, 50, 30, 350, FALSE, FALSE, TRUE, FALSE),
      \* a 'Next' link in the header of the page
      El("button", "next", FALSE, TRUE, 50, 30, 100, FALSE, FALSE, FALSE, FALSE),
      \* a hidden 'Next' button
      El("button", "next", TRUE, TRUE, 0, 0, 350, FALSE, FALSE, FALSE, FALSE),
      \* the button of the next page
      El("button", "target", FALSE, TRUE, 50, 30, 350, FALSE, FALSE, FALSE, FALSE),
      \* a wide link whose text is the next page's number
      El("button", "target", FALSE, FALSE, 120, 30, 350, FALSE, FALSE, FALSE, FALSE),
      \* the disabled button of the next page
      El("button", "target", FALSE, TRUE, 50, 30, 350, TRUE, FALSE, FALSE, FALSE),
      \* a div with the next page's number
      El("div", "target", FALSE, TRUE, 50, 30, 250, FALSE, FALSE, FALSE, FALSE),
      \* a span with the next page's number and aria-disabled
      El("span", "target", FALSE, TRUE, 50, 30, 350, FALSE, TRUE, FALSE, FALSE),
      \* a button labelled 'next' for screen readers
      El("button", "other", TRUE, TRUE, 50, 30, 350, FALSE, FALSE, FALSE, FALSE),
      \* an arrow button
      El("button", "arrow", FALSE, TRUE, 50, 30, 250, FALSE, FALSE, FALSE, FALSE),
      \* the bold button of the current page
      El("button", "current", FALSE, TRUE, 50, 30, 350, FALSE, FALSE, FALSE, TRUE),
      \* a small span with other text
      El("span", "other", FALSE, TRUE, 50, 30, 350, FALSE, FALSE, FALSE, FALSE),
      \* a small button with other text and aria-disabled
      El("button", "other", FALSE, TRUE, 50, 30, 350, FALSE, TRUE, FALSE, FALSE) }

\* largest number of elements on a page given to the click script
MaxEls == 3

\* ----------------------------------------------------------------- state
VARIABLES
    status, message, progress, current_page, max_pages,
    job_reviews, review_count, browser_closed, event_queue, screenshot,
    pc, browser, elapsed, captcha_solved, has_content,
    cur, reviews, seen_reviews, page_reviews, clicked,
    pages_log, iterations, fault,
    x_pc, x_dom, x_reviews, x_retained,
    h_pc, h_resp, h_last,
    now_ms, scrape_jobs, r_ids, r_job, r_resp, r_url,
    f_pc, f_in, f_out,
    b_fresh, b_sent, b_shot, b_shot_cur, b_upd_gt, b_upd_cur

jobvars == <<status, message, progress, current_page, max_pages,
             job_reviews, review_count, browser_closed, screenshot>>
locals == <<browser, elapsed, captcha_solved, has_content,
            cur, reviews, seen_reviews, page_reviews>>
ghosts == <<pages_log, iterations>>
\* state of the specifications that exercise single functions and handlers
xvars == <<x_pc, x_dom, x_reviews, x_retained>>
\* the request handler in flight: its position, the response or snapshot it
\* is building, and the kind of the last thing it sent
hvars == <<h_pc, h_resp, h_last>>
\* the registry: the clock in milliseconds, the ids with the dict (numbered by
\* the request that created it) each maps to, the id given to each accepted
\* start, the dict each started task works on (0: not yet looked up), and the
\* last response of start_scrape
rvars == <<now_ms, scrape_jobs, r_ids, r_job, r_resp, r_url>>
\* a page script exercised on its own: its position, the page it is given
\* and what it returns
fvars == <<f_pc, f_in, f_out>>
\* the screenshot stream in flight. Of the job, as this stream sees it:
\* b_fresh, '_screenshot_updated' is greater than the stream's last_sent;
\* b_sent, the stream has already sent the present '_screenshot'. Of the
\* stream's turn: b_shot, the screenshot it read ("none", or an image it has
\* "sent" or "unsent"), b_shot_cur, that image is still the job's; b_upd_gt,
\* the stamp it read is greater than last_sent, b_upd_cur, that stamp is
\* still the job's.
bvars == <<b_fresh, b_sent, b_shot, b_shot_cur, b_upd_gt, b_upd_cur>>
aux == <<xvars, hvars, rvars, fvars, bvars>>
vars == <<jobvars, event_queue, pc, locals, ghosts, fault, clicked, aux>>

Terminal == {"complete", "error"}
Interactive == {"captcha", "starting", "loading"}

\* the job dict start_scrape creates, and the thread before its first step
JobInit ==
    /\ status = "queued"
    /\ message = MsgStarting
    /\ progress = 0
    /\ current_page = 0
    /\ max_pages \in MaxPagesInputs
    /\ job_reviews = <<>>
    /\ review_count = 0
    /\ browser_closed = FALSE
    /\ event_queue = <<>>
    /\ screenshot = FALSE
    /\ pc = "queued"
    /\ browser = "none"
    /\ elapsed = 0
    /\ captcha_solved = FALSE
    /\ has_content = "unbound"
    /\ cur = 0
    /\ reviews = <<>>
    /\ seen_reviews = {}
    /\ page_reviews = <<>>
    /\ pages_log = <<>>
    /\ iterations = 0
    /\ clicked = "unset"
    /\ fault = "none"

\* the extraction pipeline is not exercised on its own
XOff ==
    /\ x_pc = "off"
    /\ x_dom = <<>>
    /\ x_reviews = <<>>
    /\ x_retained = <<>>

\* the dict a handler builds for its response, reduced to the keys 'status'
\* and 'reviews'; has_reviews tells whether the 'reviews' key is set.  The
\* other keys are copies of job fields read between these two.
Snapshot(st, has, revs) ==
    [status |-> st, has_reviews |-> has, reviews |-> revs]

\* no dict built yet
NoResp == Snapshot("", FALSE, <<>>)

\* no request handler is exercised
HOff ==
    /\ h_pc = "off"
    /\ h_resp = NoResp
    /\ h_last = "none"

\* the empty registry
RegInit ==
    /\ now_ms = 0
    /\ scrape_jobs = <<>>
    /\ r_ids = <<>>
    /\ r_job = <<>>
    /\ r_resp = "none"
    /\ r_url = <<>>

\* no page script is exercised on its own
FOff ==
    /\ f_pc = "off"
    /\ f_in = <<>>
    /\ f_out = <<>>

\* no screenshot stream is open
BOff ==
    /\ b_fresh = FALSE
    /\ b_sent = FALSE
    /\ b_shot = "none"
    /\ b_shot_cur = FALSE
    /\ b_upd_gt = FALSE
    /\ b_upd_cur = FALSE

Init == JobInit /\ XOff /\ HOff /\ RegInit /\ FOff /\ BOff

\* frames
pubvars == <<progress, current_page, max_pages, job_reviews, review_count>>
waitlocals == <<elapsed, captcha_solved, has_content>>
scrapelocals == <<cur, reviews, seen_reviews, page_reviews>>

\* positions of the thread inside the captcha wait loop
LoopPcs == {"loop_check", "drain", "shot", "classify", "sleep"}

\* ------------------------------------------------- thread: start-up
\* job['status'] = 'starting'
StartTask ==
    /\ pc = "queued"
    /\ status' = "starting"
    /\ pc' = "start_msg"
    /\ UNCHANGED <<message, pubvars, browser_closed, screenshot, event_queue,
                   browser, waitlocals, scrapelocals, ghosts, aux>>
    /\ UNCHANGED <<fault, clicked>>

\* job['message'] = 'Launching browser...'
StartMsg ==
    /\ pc = "start_msg"
    /\ message' = MsgLaunching
    /\ pc' = "import"
    /\ UNCHANGED <<status, pubvars, browser_closed, screenshot, event_queue,
                   browser, waitlocals, scrapelocals, ghosts, aux>>
    /\ UNCHANGED <<fault, clicked>>

\* from playwright.sync_api import sync_playwright, or ImportError
ImportPlaywright ==
    /\ pc = "import"
    /\ \/ /\ pc' = "launch"
          /\ UNCHANGED <<status, fault>>
       \/ /\ status' = "error"
          /\ fault' = "import"
          /\ pc' = "import_msg"
    /\ UNCHANGED clicked
    /\ UNCHANGED <<message, pubvars, browser_closed, screenshot, event_queue,
                   browser, waitlocals, scrapelocals, ghosts, aux>>

\* job['message'] = 'Playwright not installed.'; return
ImportErrMsg ==
    /\ pc = "import_msg"
    /\ message' = MsgNoPlaywright
    /\ pc' = "done"
    /\ UNCHANGED <<status, pubvars, browser_closed, screenshot, event_queue,
                   browser, waitlocals, scrapelocals, ghosts, aux>>
    /\ UNCHANGED <<fault, clicked>>

\* p.chromium.launch, browser.new_context, context.new_page: launch may
\* raise (no browser), the two later calls may raise with the browser open
Launch ==
    /\ pc = "launch"
    /\ \/ /\ browser' = "open"
          /\ pc' = "set_captcha"
          /\ UNCHANGED fault
       \/ /\ browser' \in {"none", "open"}
          /\ fault' = "launch"
          /\ pc' = "exit_with"
    /\ UNCHANGED clicked
    /\ UNCHANGED <<status, message, pubvars, browser_closed, screenshot,
                   event_queue, waitlocals, scrapelocals, ghosts, aux>>

\* job['status'] = 'captcha'
SetCaptcha ==
    /\ pc = "set_captcha"
    /\ status' = "captcha"
    /\ pc' = "set_loading"
    /\ UNCHANGED <<message, pubvars, browser_closed, screenshot, event_queue,
                   browser, waitlocals, scrapelocals, ghosts, aux>>
    /\ UNCHANGED <<fault, clicked>>

\* job['message'] = 'Loading page...'
SetLoadingMsg ==
    /\ pc = "set_loading"
    /\ message' = MsgLoading
    /\ pc' = "navigate"
    /\ UNCHANGED <<status, pubvars, browser_closed, screenshot, event_queue,
                   browser, waitlocals, scrapelocals, ghosts, aux>>
    /\ UNCHANGED <<fault, clicked>>

\* try: page.goto(product_url, ...): it returns, or it raises into the
\* except Exception of the try
Goto ==
    /\ pc = "navigate"
    /\ pc' \in {"settle", "nav_except"}
    /\ UNCHANGED <<status, message, pubvars, browser_closed, screenshot,
                   event_queue, browser, waitlocals, scrapelocals, ghosts, aux>>
    /\ UNCHANGED <<fault, clicked>>

\* a handler that lets the navigation error through
NavExceptReraise ==
    /\ pc = "nav_except"
    /\ fault' = "driver"
    /\ pc' = "exit_with"
    /\ UNCHANGED <<status, message, pubvars, browser_closed, screenshot,
                   event_queue, browser, waitlocals, scrapelocals, ghosts, aux>>
    /\ UNCHANGED clicked

\* except Exception as nav_err: print(...): the error is dropped
NavExcept ==
    /\ pc = "nav_except"
    /\ pc' = "settle"
    /\ UNCHANGED <<status, message, pubvars, browser_closed, screenshot,
                   event_queue, browser, waitlocals, scrapelocals, ghosts, aux>>
    /\ UNCHANGED <<fault, clicked>>

\* page.wait_for_timeout(2000), which may raise, then
\* job['message'] = 'Please solve the CAPTCHA if shown...'
Settle ==
    /\ pc = "settle"
    /\ \/ /\ message' = MsgPleaseSolve
          /\ pc' = "init_shot"
          /\ UNCHANGED fault
       \/ /\ pc' = "exit_with"
          /\ fault' = "driver"
          /\ UNCHANGED message
    /\ UNCHANGED <<status, pubvars, browser_closed, screenshot, event_queue,
                   browser, waitlocals, scrapelocals, ghosts, aux>>
    /\ UNCHANGED clicked

\* the screenshot stream is open and has not ended
BsPcs == {"bs_poll", "bs_shot", "bs_upd", "bs_send", "bs_sleep"}

\* job['_screenshot'] = <the new image>; job['_screenshot_updated'] =
\* time.time(): for an open stream the image is one it has not sent, the
\* stamp is later than its last_sent, and what it has read is no longer the
\* job's
NewScreenshot ==
    IF h_pc \in BsPcs
    THEN /\ b_fresh' = TRUE
         /\ b_sent' = FALSE
         /\ b_shot_cur' = FALSE
         /\ b_upd_cur' = FALSE
         /\ UNCHANGED <<b_shot, b_upd_gt>>
    ELSE UNCHANGED bvars

\* job['_screenshot'] = None
NoScreenshot ==
    IF h_pc \in BsPcs
    THEN /\ b_sent' = FALSE
         /\ b_shot_cur' = FALSE
         /\ UNCHANGED <<b_fresh, b_shot, b_upd_gt, b_upd_cur>>
    ELSE UNCHANGED bvars

\* initial screenshot in try/except; start_wait = time.time();
\* captcha_solved = False
InitialScreenshot ==
    /\ pc = "init_shot"
    /\ \E taken \in BOOLEAN :
          /\ screenshot' = (taken \/ screenshot)
          /\ IF taken THEN NewScreenshot ELSE UNCHANGED bvars
    /\ elapsed' = 0
    /\ captcha_solved' = FALSE
    /\ pc' = "loop_check"
    /\ UNCHANGED <<status, message, pubvars, browser_closed, event_queue,
                   browser, has_content, scrapelocals, ghosts, xvars,
                   hvars, rvars, fvars>>
    /\ UNCHANGED <<fault, clicked>>

\* ------------------------------------------------ thread: captcha wait
\* while time.time() - start_wait < captcha_timeout:
\*     if job.get('status') == 'error': break
LoopCheck ==
    /\ pc = "loop_check"
    /\ pc' = IF elapsed < CaptchaTicks /\ status # "error"
             THEN "drain" ELSE "after_loop"
    /\ UNCHANGED <<status, message, pubvars, browser_closed, screenshot,
                   event_queue, browser, waitlocals, scrapelocals, ghosts, aux>>
    /\ UNCHANGED <<fault, clicked>>

\* a drain loop that takes the newest event first
DrainOneNewestFirst ==
    /\ pc = "drain"
    /\ event_queue # <<>>
    /\ event_queue' = SubSeq(event_queue, 1, Len(event_queue) - 1)
    /\ UNCHANGED <<status, message, pubvars, browser_closed, screenshot,
                   pc, browser, waitlocals, scrapelocals, ghosts, aux>>
    /\ UNCHANGED <<fault, clicked>>

\* while not event_queue.empty(): evt = event_queue.get_nowait(); inject it
\* (an injection error is caught and printed)
DrainOne ==
    /\ pc = "drain"
    /\ event_queue # <<>>
    /\ event_queue' = Tail(event_queue)
    /\ UNCHANGED <<status, message, pubvars, browser_closed, screenshot,
                   pc, browser, waitlocals, scrapelocals, ghosts, aux>>
    /\ UNCHANGED <<fault, clicked>>

\* event_queue.empty() is true: the drain loop ends
DrainDone ==
    /\ pc = "drain"
    /\ event_queue = <<>>
    /\ pc' = "shot"
    /\ UNCHANGED <<status, message, pubvars, browser_closed, screenshot,
                   event_queue, browser, waitlocals, scrapelocals, ghosts, aux>>
    /\ UNCHANGED <<fault, clicked>>

\* page.screenshot in try/except: pass
TakeScreenshot ==
    /\ pc = "shot"
    /\ \E taken \in BOOLEAN :
          /\ screenshot' = (taken \/ screenshot)
          /\ IF taken THEN NewScreenshot ELSE UNCHANGED bvars
    /\ pc' = "classify"
    /\ UNCHANGED <<status, message, pubvars, browser_closed, event_queue,
                   browser, waitlocals, scrapelocals, ghosts, xvars,
                   hvars, rvars, fvars>>
    /\ UNCHANGED <<fault, clicked>>

\* a wait loop that takes an inspection error for a cleared gate
ClassifyErrorClears ==
    /\ pc = "classify"
    /\ \/ \E g \in GateResults :
             /\ has_content' = g
             /\ captcha_solved' = (IF g # "null" THEN TRUE ELSE captcha_solved)
             /\ pc' = IF g # "null" THEN "after_loop" ELSE "sleep"
       \/ /\ pc' = "after_loop"
          /\ captcha_solved' = TRUE
          /\ UNCHANGED has_content
    /\ UNCHANGED <<status, message, pubvars, browser_closed, screenshot,
                   event_queue, browser, elapsed, scrapelocals, ghosts, aux>>
    /\ UNCHANGED <<fault, clicked>>

\* has_content = page.evaluate(gate script); if has_content:
\* captcha_solved = True; break.  An exception is caught and ignored, and
\* has_content keeps what it had (nothing before the first result).
Classify ==
    /\ pc = "classify"
    /\ \/ \E g \in GateResults :
             /\ has_content' = g
             /\ captcha_solved' = (IF g # "null" THEN TRUE ELSE captcha_solved)
             /\ pc' = IF g # "null" THEN "after_loop" ELSE "sleep"
       \/ /\ pc' = "sleep"
          /\ UNCHANGED <<has_content, captcha_solved>>
    /\ UNCHANGED <<status, message, pubvars, browser_closed, screenshot,
                   event_queue, browser, elapsed, scrapelocals, ghosts, aux>>
    /\ UNCHANGED <<fault, clicked>>

\* time.sleep(screenshot_interval)
Sleep ==
    /\ pc = "sleep"
    /\ pc' = "loop_check"
    /\ UNCHANGED <<status, message, pubvars, browser_closed, screenshot,
                   event_queue, browser, waitlocals, scrapelocals, ghosts, aux>>
    /\ UNCHANGED <<fault, clicked>>

\* time.time() grows while the thread is in the wait loop (its browser calls
\* and its sleep take time); the model stops counting at captcha_timeout
ClockTick ==
    /\ pc \in LoopPcs
    /\ elapsed < CaptchaTicks
    /\ elapsed' = elapsed + 1
    /\ UNCHANGED <<status, message, pubvars, browser_closed, screenshot,
                   event_queue, pc, browser, captcha_solved, has_content,
                   scrapelocals, ghosts, aux>>
    /\ UNCHANGED <<fault, clicked>>

\* if not captcha_solved: ... else fall through to scraping
AfterLoop ==
    /\ pc = "after_loop"
    /\ pc' = IF captcha_solved THEN "scr_status" ELSE "to_status"
    /\ UNCHANGED <<status, message, pubvars, browser_closed, screenshot,
                   event_queue, browser, waitlocals, scrapelocals, ghosts, aux>>
    /\ UNCHANGED <<fault, clicked>>

\* job['status'] = 'error'
TimeoutStatus ==
    /\ pc = "to_status"
    /\ status' = "error"
    /\ pc' = "to_msg"
    /\ UNCHANGED <<message, pubvars, browser_closed, screenshot, event_queue,
                   browser, waitlocals, scrapelocals, ghosts, aux>>
    /\ UNCHANGED <<fault, clicked>>

\* job['message'] = 'CAPTCHA was not solved in time. Please try again.'
TimeoutMsg ==
    /\ pc = "to_msg"
    /\ message' = MsgNotSolved
    /\ pc' = "to_close"
    /\ UNCHANGED <<status, pubvars, browser_closed, screenshot, event_queue,
                   browser, waitlocals, scrapelocals, ghosts, aux>>
    /\ UNCHANGED <<fault, clicked>>

\* try: browser.close() except Exception: pass
TimeoutClose ==
    /\ pc = "to_close"
    /\ browser' \in {"closed", browser}
    /\ pc' = "to_flag"
    /\ UNCHANGED <<status, message, pubvars, browser_closed, screenshot,
                   event_queue, waitlocals, scrapelocals, ghosts, aux>>
    /\ UNCHANGED <<fault, clicked>>

\* job['_browser_closed'] = True
TimeoutFlag ==
    /\ pc = "to_flag"
    /\ browser_closed' = TRUE
    /\ pc' = "to_return"
    /\ UNCHANGED <<status, message, pubvars, screenshot, event_queue,
                   browser, waitlocals, scrapelocals, ghosts, aux>>
    /\ UNCHANGED <<fault, clicked>>

\* leaving the block without stopping the driver
PlaywrightStopNothing(b) == b

\* the with sync_playwright() block is left: the driver stops and takes a
\* browser that is still open down with it
PlaywrightStop(b) == IF b = "open" THEN "closed" ELSE b

\* return inside the with block (after the gate timeout)
TimeoutReturn ==
    /\ pc = "to_return"
    /\ browser' = PlaywrightStop(browser)
    /\ pc' = "done"
    /\ UNCHANGED <<status, message, pubvars, browser_closed, screenshot,
                   event_queue, waitlocals, scrapelocals, ghosts, aux>>
    /\ UNCHANGED <<fault, clicked>>

\* --------------------------------------------------- thread: scraping
\* job['status'] = 'scraping'
ScrapingStatus ==
    /\ pc = "scr_status"
    /\ status' = "scraping"
    /\ pc' = "scr_msg"
    /\ UNCHANGED <<message, pubvars, browser_closed, screenshot, event_queue,
                   browser, waitlocals, scrapelocals, ghosts, aux>>
    /\ UNCHANGED <<fault, clicked>>

\* job['message'] = 'CAPTCHA solved! Scraping reviews...'
ScrapingMsg ==
    /\ pc = "scr_msg"
    /\ message' = MsgSolved
    /\ pc' = "scr_stop"
    /\ UNCHANGED <<status, pubvars, browser_closed, screenshot, event_queue,
                   browser, waitlocals, scrapelocals, ghosts, aux>>
    /\ UNCHANGED <<fault, clicked>>

\* job['_screenshot'] = None; job['message'] = 'Finding reviews section...'
StopScreenshots ==
    /\ pc = "scr_stop"
    /\ screenshot' = FALSE
    /\ NoScreenshot
    /\ message' = MsgFinding
    /\ pc' = "prepare"
    /\ UNCHANGED <<status, pubvars, browser_closed, event_queue,
                   browser, waitlocals, scrapelocals, ghosts, xvars,
                   hvars, rvars, fvars>>
    /\ UNCHANGED <<fault, clicked>>

\* the scroll calls and the product-info evaluate (any may raise), the DOM
\* debug evaluate (caught), then current_page = 1
Prepare ==
    /\ pc = "prepare"
    /\ \/ /\ cur' = 1
          /\ pc' = "page_check"
          /\ UNCHANGED fault
       \/ /\ pc' = "exit_with"
          /\ fault' = "driver"
          /\ UNCHANGED cur
    /\ UNCHANGED clicked
    /\ UNCHANGED <<status, message, pubvars, browser_closed, screenshot,
                   event_queue, browser, waitlocals, reviews, seen_reviews,
                   page_reviews, ghosts, aux>>

\* while current_page <= max_pages:
PageCheck ==
    /\ pc = "page_check"
    /\ pc' = IF cur <= max_pages THEN "page_begin" ELSE "fin_status"
    /\ UNCHANGED <<status, message, pubvars, browser_closed, screenshot,
                   event_queue, browser, waitlocals, scrapelocals, ghosts, aux>>
    /\ UNCHANGED <<fault, clicked>>

\* a page counter published one ahead
PageBeginOneAhead ==
    /\ pc = "page_begin"
    /\ current_page' = cur + 1
    /\ message' = MsgScraping(cur)
    /\ progress' = ProgressOf(cur, max_pages)
    /\ pc' = "extract"
    /\ UNCHANGED <<status, max_pages, job_reviews, review_count,
                   browser_closed, screenshot, event_queue, browser,
                   waitlocals, scrapelocals, ghosts, aux>>
    /\ UNCHANGED <<fault, clicked>>

\* job['current_page'], job['max_pages'], job['message'], job['progress']
PageBegin ==
    /\ pc = "page_begin"
    /\ current_page' = cur
    /\ message' = MsgScraping(cur)
    /\ progress' = ProgressOf(cur, max_pages)
    /\ pc' = "extract"
    /\ UNCHANGED <<status, max_pages, job_reviews, review_count,
                   browser_closed, screenshot, event_queue, browser,
                   waitlocals, scrapelocals, ghosts, aux>>
    /\ UNCHANGED <<fault, clicked>>

\* the render wait (up to 6 evaluate calls) and the extraction evaluate;
\* any of them may raise; page_reviews = review_data.get('reviews', [])
Extract ==
    /\ pc = "extract"
    /\ \/ \E pg \in PageChoices :
             /\ page_reviews' = pg
             /\ pc' = "merge"
             /\ UNCHANGED fault
       \/ /\ pc' = "exit_with"
          /\ fault' = "page"
          /\ UNCHANGED page_reviews
    /\ UNCHANGED clicked
    /\ UNCHANGED <<status, message, pubvars, browser_closed, screenshot,
                   event_queue, browser, waitlocals, cur, reviews,
                   seen_reviews, ghosts, aux>>

\* for r in page_reviews: key = ...; if key and key not in seen_reviews: ...
Merge ==
    /\ pc = "merge"
    /\ LET m == Dedup(seen_reviews, reviews, page_reviews)
       IN /\ seen_reviews' = m.seen
          /\ reviews' = m.list
    /\ pages_log' = Append(pages_log, page_reviews)
    /\ iterations' = iterations + 1
    /\ pc' = "pub_reviews"
    /\ UNCHANGED <<status, message, pubvars, browser_closed, screenshot,
                   event_queue, browser, waitlocals, cur, page_reviews>>
    /\ UNCHANGED aux
    /\ UNCHANGED <<fault, clicked>>

\* job['reviews'] = reviews.copy()
PubReviews ==
    /\ pc = "pub_reviews"
    /\ job_reviews' = reviews
    /\ pc' = "pub_count"
    /\ UNCHANGED <<status, message, progress, current_page, max_pages,
                   review_count, browser_closed, screenshot, event_queue,
                   browser, waitlocals, scrapelocals, ghosts, aux>>
    /\ UNCHANGED <<fault, clicked>>

\* job['review_count'] = len(reviews)
PubCount ==
    /\ pc = "pub_count"
    /\ review_count' = Len(reviews)
    /\ pc' = "limit_check"
    /\ UNCHANGED <<status, message, progress, current_page, max_pages,
                   job_reviews, browser_closed, screenshot, event_queue,
                   browser, waitlocals, scrapelocals, ghosts, aux>>
    /\ UNCHANGED <<fault, clicked>>

\* if current_page >= max_pages: break
LimitCheck ==
    /\ pc = "limit_check"
    /\ pc' = IF cur >= max_pages THEN "fin_status" ELSE "paginate"
    /\ UNCHANGED <<status, message, pubvars, browser_closed, screenshot,
                   event_queue, browser, waitlocals, scrapelocals, ghosts, aux>>
    /\ UNCHANGED <<fault, clicked>>

\* the scroll, pagination-debug and click evaluate calls (any may raise);
\* clicked is the strategy name or null; on null the message is set and the
\* loop is left
Paginate ==
    /\ pc = "paginate"
    /\ \/ \E c \in NavResults :
             /\ clicked' = c
             /\ IF c # "null"
                THEN pc' = "nav_wait" /\ UNCHANGED message
                ELSE pc' = "fin_status" /\ message' = MsgNoMorePages
             /\ UNCHANGED fault
       \/ /\ pc' = "exit_with"
          /\ fault' = "page"
          /\ UNCHANGED <<message, clicked>>
    /\ UNCHANGED <<status, pubvars, browser_closed, screenshot, event_queue,
                   browser, waitlocals, scrapelocals, ghosts, aux>>

\* the bounded wait for the next page's rating elements (calls may raise),
\* then current_page += 1
NavWait ==
    /\ pc = "nav_wait"
    /\ \/ /\ cur' = cur + 1
          /\ pc' = "page_check"
          /\ UNCHANGED fault
       \/ /\ pc' = "exit_with"
          /\ fault' = "page"
          /\ UNCHANGED cur
    /\ UNCHANGED clicked
    /\ UNCHANGED <<status, message, pubvars, browser_closed, screenshot,
                   event_queue, browser, waitlocals, reviews, seen_reviews,
                   page_reviews, ghosts, aux>>

\* ------------------------------------------------- thread: completion
\* job['status'] = 'complete'
FinStatus ==
    /\ pc = "fin_status"
    /\ status' = "complete"
    /\ pc' = "fin_msg"
    /\ UNCHANGED <<message, pubvars, browser_closed, screenshot, event_queue,
                   browser, waitlocals, scrapelocals, ghosts, aux>>
    /\ UNCHANGED <<fault, clicked>>

\* job['message'] = f'Done! Found {len(reviews)} reviews'
FinMsg ==
    /\ pc = "fin_msg"
    /\ message' = MsgDone(Len(reviews))
    /\ pc' = "fin_progress"
    /\ UNCHANGED <<status, pubvars, browser_closed, screenshot, event_queue,
                   browser, waitlocals, scrapelocals, ghosts, aux>>
    /\ UNCHANGED <<fault, clicked>>

\* job['progress'] = 100
FinProgress ==
    /\ pc = "fin_progress"
    /\ progress' = 100
    /\ pc' = "fin_close"
    /\ UNCHANGED <<status, message, current_page, max_pages, job_reviews,
                   review_count, browser_closed, screenshot, event_queue,
                   browser, waitlocals, scrapelocals, ghosts, aux>>
    /\ UNCHANGED <<fault, clicked>>

\* browser.close(), not in a try: it returns, or it raises into the
\* except Exception handler of the function
FinClose ==
    /\ pc = "fin_close"
    /\ \/ /\ browser' = "closed"
          /\ pc' = "fin_flag"
          /\ UNCHANGED fault
       \/ /\ pc' = "exit_with"
          /\ fault' = "close"
          /\ browser' \in {browser, "closed"}
    /\ UNCHANGED clicked
    /\ UNCHANGED <<status, message, pubvars, browser_closed, screenshot,
                   event_queue, waitlocals, scrapelocals, ghosts, aux>>

\* job['_browser_closed'] = True, then the with block and the function end
FinFlag ==
    /\ pc = "fin_flag"
    /\ browser_closed' = TRUE
    /\ browser' = PlaywrightStop(browser)
    /\ pc' = "done"
    /\ UNCHANGED <<status, message, pubvars, screenshot, event_queue,
                   waitlocals, scrapelocals, ghosts, aux>>
    /\ UNCHANGED <<fault, clicked>>

\* --------------------------------------------- thread: exception path
\* an exception leaves the with block on its way to except Exception
ExitWith ==
    /\ pc = "exit_with"
    /\ browser' = PlaywrightStop(browser)
    /\ pc' = "exc_status"
    /\ UNCHANGED <<status, message, pubvars, browser_closed, screenshot,
                   event_queue, waitlocals, scrapelocals, ghosts, aux>>
    /\ UNCHANGED <<fault, clicked>>

ExceptStatusDropsReviews ==
    /\ pc = "exc_status"
    /\ status' = "error"
    /\ job_reviews' = <<>>
    /\ review_count' = 0
    /\ pc' = "exc_msg"
    /\ UNCHANGED <<message, progress, current_page, max_pages, browser_closed,
                   screenshot, event_queue, browser, waitlocals, scrapelocals,
                   ghosts, aux>>
    /\ UNCHANGED <<fault, clicked>>

\* job['status'] = 'error'
ExceptStatus ==
    /\ pc = "exc_status"
    /\ status' = "error"
    /\ pc' = "exc_msg"
    /\ UNCHANGED <<message, pubvars, browser_closed, screenshot, event_queue,
                   browser, waitlocals, scrapelocals, ghosts, aux>>
    /\ UNCHANGED <<fault, clicked>>

\* job['message'] = f'Error: {str(e)}'
ExceptMsg ==
    /\ pc = "exc_msg"
    /\ message' = MsgError
    /\ pc' = "exc_flag"
    /\ UNCHANGED <<status, pubvars, browser_closed, screenshot, event_queue,
                   browser, waitlocals, scrapelocals, ghosts, aux>>
    /\ UNCHANGED <<fault, clicked>>

\* job['_browser_closed'] = True
ExceptFlag ==
    /\ pc = "exc_flag"
    /\ browser_closed' = TRUE
    /\ pc' = "done"
    /\ UNCHANGED <<status, message, pubvars, screenshot, event_queue,
                   browser, waitlocals, scrapelocals, ghosts, aux>>
    /\ UNCHANGED <<fault, clicked>>

\* ------------------------------------------------------ HTTP handlers
\* POST /browser-event: rejected when the browser is marked closed or the
\* status is not interactive, otherwise event_queue.put(data)
BrowserEvent ==
    /\ ~browser_closed
    /\ status \in Interactive
    /\ Len(event_queue) < MaxQueue
    /\ \E evt \in Events : event_queue' = Append(event_queue, evt)
    /\ UNCHANGED <<jobvars, pc, locals, ghosts, aux>>
    /\ UNCHANGED <<fault, clicked>>

\* ------------------------------------------------- request handlers
\* The handlers of an existing job, one request at a time (they share nothing
\* but the job).  Flask serves each request on a thread of its own
\* (threaded=True), so the steps of a handler interleave with the steps of
\* the job's task.
hframe == <<jobvars, event_queue, pc, locals, ghosts, fault, clicked, xvars,
            rvars, fvars, bvars>>

\* get_status, the first keys of the response: 'status' ... 'review_count'
GetStatusHead ==
    /\ h_pc = "idle"
    /\ h_resp' = Snapshot(status, FALSE, <<>>)
    /\ h_pc' = "gs_tail"
    /\ UNCHANGED <<h_last, hframe>>

\* a status handler that hands the reviews over and empties the job's list
GetStatusTailTakesReviews ==
    /\ h_pc = "gs_tail"
    /\ h_resp' = [h_resp EXCEPT !.has_reviews = TRUE,
                                !.reviews = IF status = "complete"
                                            THEN job_reviews ELSE <<>>]
    /\ job_reviews' = <<>>
    /\ h_last' = "status"
    /\ h_pc' = "gs_resp"
    /\ UNCHANGED <<status, message, progress, current_page, max_pages,
                   review_count, browser_closed, screenshot,
                   event_queue, pc, locals, ghosts, fault, clicked, xvars,
                   rvars, fvars, bvars>>

\* get_status, 'reviews': job.get('reviews', []) if job['status'] ==
\* 'complete' else [], the remaining keys, and the response is sent
GetStatusTail ==
    /\ h_pc = "gs_tail"
    /\ h_resp' = [h_resp EXCEPT !.has_reviews = TRUE,
                                !.reviews = IF status = "complete"
                                            THEN job_reviews ELSE <<>>]
    /\ h_last' = "status"
    /\ h_pc' = "gs_resp"
    /\ UNCHANGED hframe

\* stream_status is requested: the generator starts
StreamOpen ==
    /\ h_pc = "idle"
    /\ h_pc' = "st_build"
    /\ UNCHANGED <<h_resp, h_last, hframe>>

\* data = {'status': job['status'], ..., 'review_count': ...}
StreamBuild ==
    /\ h_pc = "st_build"
    /\ h_resp' = Snapshot(status, FALSE, <<>>)
    /\ h_pc' = "st_check"
    /\ UNCHANGED <<h_last, hframe>>

\* a generator that goes on after the terminal snapshot
StreamCheckNoBreak ==
    /\ h_pc = "st_check"
    /\ IF status \in Terminal
       THEN /\ h_resp' = [h_resp EXCEPT !.has_reviews = TRUE,
                                        !.reviews = job_reviews]
            /\ h_last' = "final"
            /\ h_pc' = "st_sleep"
       ELSE /\ h_last' = "progress"
            /\ h_pc' = "st_sleep"
            /\ UNCHANGED h_resp
    /\ UNCHANGED hframe

\* if job['status'] in ('complete', 'error'): data['reviews'] = ...; yield;
\* break -- else yield data
StreamCheck ==
    /\ h_pc = "st_check"
    /\ IF status \in Terminal
       THEN /\ h_resp' = [h_resp EXCEPT !.has_reviews = TRUE,
                                        !.reviews = job_reviews]
            /\ h_last' = "final"
            /\ h_pc' = "st_ended"
       ELSE /\ h_last' = "progress"
            /\ h_pc' = "st_sleep"
            /\ UNCHANGED h_resp
    /\ UNCHANGED hframe

\* time.sleep(0.5), and the loop starts over: data is dead until it is
\* built again
StreamSleep ==
    /\ h_pc = "st_sleep"
    /\ h_resp' = NoResp
    /\ h_pc' = "st_build"
    /\ UNCHANGED <<h_last, hframe>>

\* GET /browser-stream/<job_id> for the job: the generator starts with
\* last_sent = 0, so the job's stamp is newer if and only if there is one,
\* and a stamp is written with every screenshot
BrowserStreamOpen ==
    /\ h_pc = "idle"
    /\ h_pc' = "bs_poll"
    /\ b_fresh' = screenshot
    /\ b_sent' = FALSE
    /\ UNCHANGED <<b_shot, b_shot_cur, b_upd_gt, b_upd_cur>>
    /\ UNCHANGED <<h_resp, h_last, jobvars, event_queue, pc, locals, ghosts,
                   fault, clicked, xvars, rvars, fvars>>

\* the head of a turn of browser_stream's loop: if job['status'] not in
\* ('captcha', 'loading', 'starting'): yield 'solved' and break, and the
\* generator with its last_sent is gone
BrowserStreamPoll ==
    /\ h_pc = "bs_poll"
    /\ IF status \notin Interactive
       THEN /\ h_last' = "solved"
            /\ h_pc' = "bs_ended"
            /\ b_fresh' = FALSE
            /\ b_sent' = FALSE
       ELSE /\ h_pc' = "bs_shot"
            /\ UNCHANGED <<h_last, b_fresh, b_sent>>
    /\ UNCHANGED <<b_shot, b_shot_cur, b_upd_gt, b_upd_cur>>
    /\ UNCHANGED <<h_resp, jobvars, event_queue, pc, locals, ghosts,
                   fault, clicked, xvars, rvars, fvars>>

\* screenshot = job.get('_screenshot')
BrowserStreamReadShot ==
    /\ h_pc = "bs_shot"
    /\ b_shot' = IF ~screenshot THEN "none"
                 ELSE IF b_sent THEN "sent" ELSE "unsent"
    /\ b_shot_cur' = screenshot
    /\ h_pc' = "bs_upd"
    /\ UNCHANGED <<b_fresh, b_sent, b_upd_gt, b_upd_cur>>
    /\ UNCHANGED <<h_resp, h_last, jobvars, event_queue, pc, locals, ghosts,
                   fault, clicked, xvars, rvars, fvars>>

\* updated = job.get('_screenshot_updated', 0)
BrowserStreamReadStamp ==
    /\ h_pc = "bs_upd"
    /\ b_upd_gt' = b_fresh
    /\ b_upd_cur' = TRUE
    /\ h_pc' = "bs_send"
    /\ UNCHANGED <<b_fresh, b_sent, b_shot, b_shot_cur>>
    /\ UNCHANGED <<h_resp, h_last, jobvars, event_queue, pc, locals, ghosts,
                   fault, clicked, xvars, rvars, fvars>>

\* if screenshot and updated > last_sent: yield the frame; last_sent =
\* updated. What is sent is a "frame", or a "frame_again" if its image is one
\* the stream has sent before
BrowserStreamSend ==
    /\ h_pc = "bs_send"
    /\ IF b_shot # "none" /\ b_upd_gt
       THEN /\ h_last' = IF b_shot = "sent" THEN "frame_again" ELSE "frame"
            /\ b_sent' = (b_sent \/ b_shot_cur)
            /\ b_fresh' = (b_fresh /\ ~b_upd_cur)
       ELSE /\ h_last' = "none"
            /\ UNCHANGED <<b_sent, b_fresh>>
    /\ b_shot' = "none"
    /\ b_shot_cur' = FALSE
    /\ b_upd_gt' = FALSE
    /\ b_upd_cur' = FALSE
    /\ h_pc' = "bs_sleep"
    /\ UNCHANGED <<h_resp, jobvars, event_queue, pc, locals, ghosts,
                   fault, clicked, xvars, rvars, fvars>>

\* time.sleep(0.3), and the loop starts over
BrowserStreamSleep ==
    /\ h_pc = "bs_sleep"
    /\ h_pc' = "bs_poll"
    /\ h_last' = "none"
    /\ UNCHANGED <<h_resp, hframe>>

\* debug_dom: the stored '_dom_debug' or the default message is returned
DebugDom ==
    /\ h_pc = "idle"
    /\ h_last' = "dom_debug"
    /\ h_pc' = "dd_resp"
    /\ UNCHANGED <<h_resp, hframe>>

\* POST /browser-event/<job_id> arrives, for a job id that is in scrape_jobs
\* or for one that is not
BrowserEventOpen ==
    /\ h_pc = "idle"
    /\ h_pc' \in {"be_job", "be_nojob"}
    /\ UNCHANGED <<h_resp, h_last, hframe>>

BrowserEventCheckNoStatus ==
    /\ h_pc \in {"be_job", "be_nojob"}
    /\ IF h_pc = "be_nojob"
       THEN h_pc' = "be_resp" /\ h_last' = "not_found"
       ELSE IF browser_closed
            THEN h_pc' = "be_resp" /\ h_last' = "not_interactive"
            ELSE h_pc' = "be_put" /\ UNCHANGED h_last
    /\ UNCHANGED <<h_resp, hframe>>

\* if job_id not in scrape_jobs: 404; if job.get('_browser_closed') or
\* job.get('status') not in ('captcha', 'starting', 'loading'): 400; the
\* queue of a job is a queue.Queue(), which is never falsy
BrowserEventCheck ==
    /\ h_pc \in {"be_job", "be_nojob"}
    /\ IF h_pc = "be_nojob"
       THEN h_pc' = "be_resp" /\ h_last' = "not_found"
       ELSE IF browser_closed \/ status \notin Interactive
            THEN h_pc' = "be_resp" /\ h_last' = "not_interactive"
            ELSE h_pc' = "be_put" /\ UNCHANGED h_last
    /\ UNCHANGED <<h_resp, hframe>>

\* event_queue.put(data); return {'ok': True}
BrowserEventPut ==
    /\ h_pc = "be_put"
    /\ Len(event_queue) < MaxQueue
    /\ \E evt \in Events : event_queue' = Append(event_queue, evt)
    /\ h_last' = "ok"
    /\ h_pc' = "be_resp"
    /\ UNCHANGED <<h_resp, jobvars, pc, locals, ghosts, fault, clicked, xvars,
                   rvars, fvars, bvars>>

BrowserEventStep == BrowserEventOpen \/ BrowserEventCheck \/ BrowserEventPut

HandlerStep ==
    \/ GetStatusHead \/ GetStatusTail
    \/ StreamOpen \/ StreamBuild \/ StreamCheck \/ StreamSleep
    \/ BrowserStreamOpen \/ BrowserStreamPoll \/ BrowserStreamReadShot
    \/ BrowserStreamReadStamp \/ BrowserStreamSend \/ BrowserStreamSleep
    \/ DebugDom

StreamStep == StreamBuild \/ StreamCheck \/ StreamSleep

\* ------------------------------------------------------- job registry
\* A URL as extract_product_id sees it: what stands between its slashes,
\* each part a run of digits or not, with its length, first the parts of its
\* path, then those of its query string (q); <<>> is the empty string.
Part(d, n) == [digits |-> d, len |-> n, q |-> FALSE]
QPart(d, n) == [digits |-> d, len |-> n, q |-> TRUE]

\* the part ends the URL or is followed by '?'
EndsOrQuery(url, i) == i = Len(url) \/ (~url[i].q /\ url[i + 1].q)

\* \d{15,20}
PidMinLen == 15
PidMaxLen == 20
\* len(part) > 10
PidFallbackLen == 10

\* re.search(r'/(\d{15,20})(?:\?|$)', url) matches at this part of the URL
RegexAt(url, i) ==
    /\ url[i].digits
    /\ url[i].len >= PidMinLen
    /\ url[i].len <= PidMaxLen
    /\ EndsOrQuery(url, i)

\* part.isdigit() and len(part) > 10, for a part of urlparse(url).path
FallbackAt(url, i) ==
    ~url[i].q /\ url[i].digits /\ url[i].len > PidFallbackLen

\* the parts of the URL the pattern matches at, and the parts of its path
\* the fallback accepts
RegexParts(url) == {i \in DOMAIN url : RegexAt(url, i)}
FallbackParts(url) == {i \in DOMAIN url : FallbackAt(url, i)}

ExtractProductIdRegexOnly(url) == FirstIndex(RegexParts(url))

\* the leftmost match of the pattern anywhere in the URL, else the first
\* part of the path that is all digits and longer than 10: the index of the
\* part, 0 for None
ExtractProductId(url) ==
    IF RegexParts(url) # {}
    THEN FirstIndex(RegexParts(url))
    ELSE FirstIndex(FallbackParts(url))

\* the URLs start_scrape is called with
UrlInputs ==
    { <<>>,
      <<Part(FALSE, 7)>>,
      <<Part(TRUE, 9)>>,
      <<Part(FALSE, 4), Part(TRUE, 19)>>,
      <<Part(TRUE, 12), Part(FALSE, 5)>>,
      <<Part(TRUE, 10)>>,
      <<Part(TRUE, 11)>>,
      <<Part(TRUE, 15)>>,
      <<Part(TRUE, 20)>>,
      <<Part(TRUE, 25)>>,
      <<Part(FALSE, 4), QPart(TRUE, 16)>>,
      <<Part(FALSE, 4), QPart(TRUE, 12)>>,
      <<Part(TRUE, 16), QPart(FALSE, 3)>> }

\* scrape_jobs[job_id] = {...}: the dict start_scrape stores, obj telling
\* the dicts apart
NewJob(n) ==
    [obj |-> n, status |-> "queued", message |-> "Starting...",
     progress |-> 0, current_page |-> 0, reviews |-> <<>>,
     review_count |-> 0, browser_closed |-> FALSE, event_queue |-> <<>>]

\* last millisecond of the registry's clock
MaxMillis == 2
\* largest number of accepted start requests
MaxStarts == 3

\* time passes
RegTick ==
    /\ now_ms < MaxMillis
    /\ now_ms' = now_ms + 1
    /\ UNCHANGED <<scrape_jobs, r_ids, r_job, r_resp, r_url>>
    /\ UNCHANGED <<jobvars, event_queue, pc, locals, ghosts, fault, clicked,
                   xvars, hvars, fvars, bvars>>

\* start_scrape: 400 for an empty URL or a URL without product id, else
\* job_id = f"job_{int(time.time() * 1000)}", scrape_jobs[job_id] = {...}
\* and the thread is started
StartScrape ==
    /\ Len(r_ids) < MaxStarts
    /\ \E url \in UrlInputs :
          /\ r_url' = url
          /\ IF url = <<>>
             THEN /\ r_resp' = "url_required"
                  /\ UNCHANGED <<scrape_jobs, r_ids, r_job>>
             ELSE IF ExtractProductId(url) = 0
             THEN /\ r_resp' = "invalid_url"
                  /\ UNCHANGED <<scrape_jobs, r_ids, r_job>>
             ELSE /\ scrape_jobs' =
                        [k \in DOMAIN scrape_jobs \cup {now_ms} |->
                            IF k = now_ms THEN NewJob(Len(r_ids) + 1)
                            ELSE scrape_jobs[k]]
                  /\ r_ids' = Append(r_ids, now_ms)
                  /\ r_job' = Append(r_job, 0)
                  /\ r_resp' = "ok"
    /\ UNCHANGED now_ms
    /\ UNCHANGED <<jobvars, event_queue, pc, locals, ghosts, fault, clicked,
                   xvars, hvars, fvars, bvars>>

\* the first line of a started task: job = scrape_jobs[job_id]
TaskLookup ==
    /\ \E n \in DOMAIN r_job :
          /\ r_job[n] = 0
          /\ r_job' = [r_job EXCEPT ![n] = scrape_jobs[r_ids[n]].obj]
    /\ UNCHANGED <<now_ms, scrape_jobs, r_ids, r_resp, r_url>>
    /\ UNCHANGED <<jobvars, event_queue, pc, locals, ghosts, fault, clicked,
                   xvars, hvars, fvars, bvars>>

RegNext == RegTick \/ StartScrape \/ TaskLookup

RegSpec == Init /\ [][RegNext]_vars

\* ------------------------------------------------ gate script alone
GateInit ==
    /\ JobInit
    /\ XOff
    /\ HOff
    /\ RegInit
    /\ BOff
    /\ f_pc = "gate_in"
    /\ f_in \in GateDoms
    /\ f_out = <<>>

\* has_content = page.evaluate(gate script)
GateEvaluate ==
    /\ f_pc = "gate_in"
    /\ f_out' = GateClassify(f_in)
    /\ f_pc' = "gate_out"
    /\ UNCHANGED <<jobvars, event_queue, pc, locals, ghosts, fault, clicked,
                   xvars, hvars, rvars, f_in, bvars>>

GateSpec == GateInit /\ [][GateEvaluate]_vars

\* ------------------------------------------------ click script alone
NavDoms == SeqsUpTo(NavEls, MaxEls)

NavInit ==
    /\ JobInit
    /\ XOff
    /\ HOff
    /\ RegInit
    /\ BOff
    /\ f_pc = "nav_in"
    /\ f_in \in NavDoms
    /\ f_out = <<>>

\* clicked = page.evaluate(click script, next_page)
NavEvaluate ==
    /\ f_pc = "nav_in"
    /\ f_out' = NavClick(f_in)
    /\ f_pc' = "nav_out"
    /\ UNCHANGED <<jobvars, event_queue, pc, locals, ghosts, fault, clicked,
                   xvars, hvars, rvars, f_in, bvars>>

NavSpec == NavInit /\ [][NavEvaluate]_vars

\* ------------------------------------------- extraction pipeline alone
\* one page: its rating anchors are drawn, then extracted, then merged into
\* an empty accumulator
XInit ==
    /\ JobInit
    /\ HOff
    /\ RegInit
    /\ FOff
    /\ BOff
    /\ x_pc = "dom"
    /\ x_dom \in XDoms
    /\ x_reviews = <<>>
    /\ x_retained = <<>>

\* review_data = page.evaluate(extraction script)
XExtract ==
    /\ x_pc = "dom"
    /\ x_reviews' = ExtractPage(x_dom)
    /\ x_pc' = "extracted"
    /\ UNCHANGED <<jobvars, event_queue, pc, locals, ghosts, fault, clicked,
                   x_dom, x_retained, hvars, rvars, fvars, bvars>>

\* the dedup loop with reviews = [] and seen_reviews = set()
XMerge ==
    /\ x_pc = "extracted"
    /\ x_retained' = Dedup({}, <<>>, x_reviews).list
    /\ x_pc' = "merged"
    /\ UNCHANGED <<jobvars, event_queue, pc, locals, ghosts, fault, clicked,
                   x_dom, x_reviews, hvars, rvars, fvars, bvars>>

XNext == XExtract \/ XMerge

XSpec == XInit /\ [][XNext]_vars

\* ------------------------------------------------------ specification
JobNext ==
    \/ StartTask \/ StartMsg \/ ImportPlaywright \/ ImportErrMsg
    \/ Launch \/ SetCaptcha \/ SetLoadingMsg \/ Goto \/ NavExcept \/ Settle
    \/ InitialScreenshot
    \/ LoopCheck \/ DrainOne \/ DrainDone \/ TakeScreenshot \/ Classify
    \/ Sleep \/ AfterLoop
    \/ TimeoutStatus \/ TimeoutMsg \/ TimeoutClose \/ TimeoutFlag
    \/ TimeoutReturn
    \/ ScrapingStatus \/ ScrapingMsg \/ StopScreenshots \/ Prepare
    \/ PageCheck \/ PageBegin \/ Extract \/ Merge \/ PubReviews \/ PubCount
    \/ LimitCheck \/ Paginate \/ NavWait
    \/ FinStatus \/ FinMsg \/ FinProgress \/ FinClose \/ FinFlag
    \/ ExitWith \/ ExceptStatus \/ ExceptMsg \/ ExceptFlag

Next == JobNext \/ ClockTick \/ BrowserEvent

Spec == Init /\ [][Next]_vars

\* the thread keeps running and the clock keeps advancing
FairSpec == Spec /\ WF_vars(JobNext) /\ WF_vars(ClockTick)

\* a job as start_scrape creates it, and no request yet
HInit ==
    /\ JobInit
    /\ XOff
    /\ RegInit
    /\ FOff
    /\ BOff
    /\ h_pc = "idle"
    /\ h_resp = NoResp
    /\ h_last = "none"

\* the pages and the input events the handlers are exercised with: an empty
\* page or the page of two reviews, and at most one click waiting
SmallEnv ==
    /\ event_queue' \in {<<>>, <<"click">>}
    /\ page_reviews' \in {page_reviews, <<>>, <<rA1, rB>>}

HNext ==
    \/ JobNext /\ SmallEnv
    \/ ClockTick
    \/ BrowserEvent /\ SmallEnv
    \/ HandlerStep
    \/ BrowserEventStep /\ SmallEnv

HSpec == HInit /\ [][HNext]_vars

\* the task and the clock go on, and the stream's generator is resumed for
\* as long as it has not ended
HFairSpec ==
    HSpec /\ WF_vars(JobNext /\ SmallEnv) /\ WF_vars(ClockTick)
          /\ WF_vars(StreamStep)

\* ------------------------------------------------- helpers for claims
RECURSIVE Flatten(_)
Flatten(pages) ==
    IF pages = <<>> THEN <<>> ELSE Head(pages) \o Flatten(Tail(pages))

\* every review extracted so far, in extraction order
FlatLog == Flatten(pages_log)

First(n, t) == [i \in 1 .. Min(Len(t), n) |-> t[i]]
Fingerprint(r) == First(50, r.review_text)

\* index in log of the first review with fingerprint k
FirstIdx(k, log) ==
    CHOOSE i \in DOMAIN log :
        /\ Fingerprint(log[i]) = k
        /\ \A j \in 1 .. (i - 1) : Fingerprint(log[j]) # k

IsPrefix(s, t) == Len(s) <= Len(t) /\ SubSeq(t, 1, Len(s)) = s

Range(s) == {s[i] : i \in DOMAIN s}

Max(a, b) == IF a > b THEN a ELSE b

\* ---------------------------------------------------------------- C1
\* C1: once the status is 'complete' or 'error' it never changes again.
C1_TerminalIsFinal ==
    [][(status \in Terminal) => (status' = status)]_vars

\* ---------------------------------------------------------------- C2
AllowedMoves ==
    { <<"queued", "starting">>, <<"starting", "captcha">>,
      <<"captcha", "scraping">>, <<"scraping", "complete">> }
    \cup { <<s, "error">> : s \in {"queued", "starting", "captcha", "scraping"} }

\* C2: the status moves only along queued -> starting -> captcha ->
\* scraping -> complete or from a non-terminal state to error, and
\* 'scraping' is entered only after the gate check returned a content signal.
C2_StatusPath ==
    /\ [][(status' # status) => (<<status, status'>> \in AllowedMoves)]_vars
    /\ [](status = "scraping" => has_content \in GateResults \ {"null"})

\* ---------------------------------------------------------------- C3
\* C3: every started job eventually has status 'complete' or 'error'.
C3_Terminates == <>(status \in Terminal)

\* ---------------------------------------------------------------- C4
\* C4 as stated: at most max_pages extract-and-merge iterations, and the
\* job's current_page is at most max_pages in every state.
C4_PageBound == iterations <= max_pages /\ current_page <= max_pages

\* C4 amended: at most max(max_pages, 0) extract-and-merge iterations, and
\* the job's current_page is at most max(max_pages, 0) in every state.
C4_PageBoundNonNeg ==
    /\ iterations <= Max(max_pages, 0)
    /\ current_page <= Max(max_pages, 0)

\* the navigator reported success on every call and the loop still ended
\* after max_pages iterations
C4_Witness ==
    /\ pc = "fin_status"
    /\ max_pages >= 2
    /\ iterations = max_pages
    /\ current_page = max_pages
    /\ message # MsgNoMorePages

\* ---------------------------------------------------------------- C5
\* C5: when the wait loop is past the timeout without a content signal the
\* job ends in 'error' with the 'not solved in time' message, and it is
\* never 'scraping' or 'complete' without a content signal.
C5_TimeoutLeadsToError ==
    /\ (pc \in LoopPcs /\ elapsed >= CaptchaTicks)
          ~> (captcha_solved \/ (status = "error" /\ message = MsgNotSolved))
    /\ [](status \in {"scraping", "complete"} => captcha_solved)

\* ---------------------------------------------------------------- C6
\* C6 as stated: whenever the status of a job that launched a browser is
\* terminal, the browser has been closed.
C6_ClosedWhenTerminal ==
    (status \in Terminal /\ browser # "none") => browser = "closed"

\* C6 amended: when the background task of a job that launched a browser
\* has finished, on whichever exit path, the browser has been closed.
C6_ClosedWhenDone ==
    (pc = "done" /\ browser # "none") => browser = "closed"

\* the final browser.close() raised after 'complete' was set, and the task
\* ended with the browser closed all the same
C6_Witness ==
    /\ pc = "done"
    /\ status = "error"
    /\ progress = 100
    /\ browser = "closed"

\* ---------------------------------------------------------------- C7
\* C7: progress is an integer in 0..100 in every state and never decreases
\* from one state to the next.
C7_ProgressMonotone ==
    /\ [](progress \in 0 .. 100)
    /\ [][progress' >= progress]_vars

\* the last page of two begun: progress has grown from 0 through 50 to 100
\* while the job is still scraping
C7_Witness ==
    /\ pc = "extract"
    /\ status = "scraping"
    /\ cur = 2
    /\ max_pages = 2
    /\ progress = 100

\* ---------------------------------------------------------------- C8
NoSharedFingerprint(list) ==
    \A i, j \in DOMAIN list :
        i # j => Fingerprint(list[i]) # Fingerprint(list[j])

FirstSeenRetained(list) ==
    \A i \in DOMAIN list :
        /\ \E k \in DOMAIN FlatLog : Fingerprint(FlatLog[k]) = Fingerprint(list[i])
        /\ list[i] = FlatLog[FirstIdx(Fingerprint(list[i]), FlatLog)]

\* C8: no two retained reviews share their first 50 characters of body, and
\* the retained review of a fingerprint is the first one extracted with it.
C8_FingerprintUnique ==
    /\ NoSharedFingerprint(reviews)
    /\ NoSharedFingerprint(job_reviews)
    /\ FirstSeenRetained(reviews)
    /\ FirstSeenRetained(job_reviews)

\* two pages, each with a review whose body starts with the same 60
\* characters, merged and published: exactly one of the two is retained
C8_Witness ==
    /\ pc = "limit_check"
    /\ Len(pages_log) = 2
    /\ rA1 \in Range(pages_log[1])
    /\ rA2 \in Range(pages_log[2])
    /\ rA2 \notin Range(pages_log[1])
    /\ First(60, rA1.review_text) = First(60, rA2.review_text)
    /\ rA1 # rA2
    /\ Cardinality({i \in DOMAIN job_reviews :
                       job_reviews[i] \in {rA1, rA2}}) = 1
    /\ rA1 \in Range(job_reviews)

\* ---------------------------------------------------------------- C9
\* the thread has merged page_reviews and has not yet extracted another page
AfterMerge == pc \in {"pub_reviews", "pub_count", "limit_check", "paginate",
                      "nav_wait"}

\* C9: merging the page just merged a second time leaves the retained
\* reviews (content, order, length) and the seen-key set as they are.
C9_MergeIdempotent ==
    AfterMerge =>
        Dedup(seen_reviews, reviews, page_reviews)
            = [seen |-> seen_reviews, list |-> reviews]

\* a merge of a three-review page that added reviews to a non-empty list
C9_Witness ==
    /\ pc = "pub_reviews"
    /\ Len(page_reviews) = 3
    /\ Len(job_reviews) > 0
    /\ Len(reviews) > Len(job_reviews)

\* --------------------------------------------------------------- C10
\* C10: each published reviews value extends the one before it, and the
\* published reviews stand in the order in which their fingerprints were
\* first extracted.
C10_AppendOnly ==
    /\ [][IsPrefix(job_reviews, job_reviews')]_vars
    /\ [](\A i, j \in DOMAIN job_reviews :
             i < j => FirstIdx(Fingerprint(job_reviews[i]), FlatLog)
                        < FirstIdx(Fingerprint(job_reviews[j]), FlatLog))
    /\ [](pc \in {"pub_count", "limit_check"} =>
             {Fingerprint(r) : r \in Range(job_reviews)}
                = {Fingerprint(r) : r \in Range(FlatLog)})

\* a second page published one new review behind the two of the first page
C10_Witness ==
    /\ pc = "pub_count"
    /\ Len(pages_log) = 2
    /\ job_reviews = <<rA1, rB, rC>>
    /\ review_count = 2
\* ---------------------------------------------------------------- C11
\* every line of the anchors of the page, as a set of texts
LineTexts(dom) ==
    UNION {{dom[i].lines[j].text : j \in DOMAIN dom[i].lines} : i \in DOMAIN dom}

\* the anchor isolates no text line: no line the line loop can keep
NoTextLine(card) ==
    \A j \in DOMAIN card.lines :
        \/ Len(card.lines[j].text) < MinLineLen
        \/ card.lines[j].cls \in SkipClasses

\* C11: no review the extractor emits and no retained review has an empty
\* body: the body is a line of the page, or the placeholder '(no text)',
\* and a page whose anchors isolate no text line yields only placeholders.
C11_NoEmptyBody ==
    /\ \A r \in Range(x_reviews) \cup Range(x_retained) :
          /\ r.review_text # <<>>
          /\ r.review_text = Placeholder \/ r.review_text \in LineTexts(x_dom)
    /\ (\A i \in DOMAIN x_dom : NoTextLine(x_dom[i]))
          => \A r \in Range(x_reviews) : r.review_text = Placeholder

\* a rated anchor whose only line of text is too short was emitted and
\* retained with the placeholder
C11_Witness ==
    /\ x_pc = "merged"
    /\ x_dom = <<cTinyRated>>
    /\ Len(x_retained) = 1
    /\ x_retained[1].review_text = Placeholder

\* ---------------------------------------------------------------- C12
\* C12: every extracted rating is an integer from 0 to 5, and it is 0 when
\* the label holds no number.
C12_RatingRange ==
    /\ \A r \in Range(x_reviews) \cup Range(x_retained) : r.rating \in 0 .. 5
    /\ (x_pc # "dom" /\ x_dom = <<cTinyNoRating, cLowFive>>)
          => (Len(x_reviews) = 1 /\ x_reviews[1].rating = 0)

\* ---------------------------------------------------------------- C13
\* the anchor can be emitted: it was processed, and it has a positive rating
\* or a line of text that is long enough and matches no skip pattern
Emittable(card) ==
    /\ ~card.throws
    /\ card.walk = "found"
    /\ RatingOf(card.label) > 0 \/ ~NoTextLine(card)

\* C13: a review is emitted only for an anchor with a positive rating or an
\* isolated body line: every emitted review has a positive rating or a body
\* that is a line of at least MinLineLen characters, there are no more
\* reviews than such anchors, and of three anchors, two parseable and one
\* with rating 0 and only a 3-character line, exactly the two are emitted.
C13_EmitOnlyRatedOrBody ==
    x_pc # "dom" =>
        /\ \A r \in Range(x_reviews) :
              \/ r.rating > 0
              \/ /\ r.review_text # Placeholder
                 /\ Len(r.review_text) >= MinLineLen
                 /\ r.review_text \in LineTexts(x_dom)
        /\ Len(x_reviews) <=
              Cardinality({i \in DOMAIN x_dom : Emittable(x_dom[i])})
        /\ x_dom = <<cFive, cTinyNoRating, cHalf>> =>
              /\ Len(x_reviews) = 2
              /\ x_reviews[1].rating = 5 /\ x_reviews[1].review_text = lBody20.text
              /\ x_reviews[2].rating = 5 /\ x_reviews[2].review_text = lBody12.text

\* the three anchors were extracted and two reviews came out
C13_Witness ==
    /\ x_pc = "extracted"
    /\ x_dom = <<cFive, cTinyNoRating, cHalf>>
    /\ Len(x_reviews) = 2

\* ---------------------------------------------------------------- C14
\* C14: once the pagination navigator has returned a falsy result the job is
\* never in 'error', and when the task has ended the job is 'complete' and
\* its reviews are exactly the reviews accumulated by the loop.
C14_NoMorePagesEndsComplete ==
    clicked = "null" =>
        /\ status # "error"
        /\ pc = "done" => (status = "complete" /\ job_reviews = reviews)

\* ---------------------------------------------------------------- C15
\* C15: a failing extraction, render-wait or pagination call on one page
\* never puts the job into 'error'; a job in 'error' got there by the gate
\* timeout or by a fault of the driver import, the launch or the driver.
C15_OnlyGateAndDriverFaultsAreErrors ==
    /\ fault = "page" => status # "error"
    /\ status = "error" =>
          \/ fault \in {"import", "launch", "driver"}
          \/ fault = "none" /\ ~captcha_solved

\* ---------------------------------------------------------------- C16
\* C16: when the initial page.goto has raised, the job is in 'captcha', and
\* the next step of the task leaves it in 'captcha', records no fault and
\* goes to the wait that precedes the polling of the gate classifier.
C16_NavigationFailureNotFatal ==
    [][(pc = "nav_except") =>
          (/\ status = "captcha"
           /\ (pc' # pc) =>
                 (pc' = "settle" /\ status' = "captcha" /\ fault' = "none"))]_vars

\* the initial navigation has just raised
C16_Witness ==
    /\ pc = "nav_except"
    /\ status = "captcha"
    /\ fault = "none"
    /\ browser = "open"

\* ---------------------------------------------------------------- C17
\* the fields of the job the claim names
JobFields == <<status, message, progress, current_page, job_reviews,
               review_count>>

\* C17: the job's status, message, progress, current_page, reviews and
\* review_count change only in a step in which the job's task moves, and a
\* step of a handler (status, stream, browser-stream, browser-event,
\* debug-dom) leaves them unchanged and either leaves the event queue as it
\* is or appends one event to it.
C17_SingleWriter ==
    [][/\ (pc' = pc) => UNCHANGED JobFields
       /\ (HandlerStep \/ BrowserEvent) =>
             /\ UNCHANGED JobFields
             /\ \/ event_queue' = event_queue
                \/ \E evt \in Events : event_queue' = Append(event_queue, evt)]_vars

\* the stream has sent a snapshot and an input event has been queued while
\* the task is in the captcha wait
C17_Witness ==
    /\ h_pc = "st_sleep"
    /\ h_last = "progress"
    /\ event_queue # <<>>
    /\ status = "captcha"

\* ---------------------------------------------------------------- C18
\* C18: the ids given to accepted start requests are pairwise distinct, the
\* registry holds one entry for each accepted request (none was replaced),
\* and no two started tasks work on the same job dict.
C18_DistinctJobIds ==
    /\ \A i, j \in DOMAIN r_ids : i # j => r_ids[i] # r_ids[j]
    /\ Cardinality(DOMAIN scrape_jobs) = Len(r_ids)
    /\ \A i, j \in DOMAIN r_job :
          (i # j /\ r_job[i] # 0 /\ r_job[j] # 0) => r_job[i] # r_job[j]

\* ---------------------------------------------------------------- C19
\* C19: a response of the status endpoint whose status is not 'complete' has
\* an empty reviews list.
C19_ReviewsOnlyWhenComplete ==
    h_pc = "gs_resp" =>
        (h_resp.status # "complete" => h_resp.reviews = <<>>)

\* ---------------------------------------------------------------- C20
StreamPcs == {"st_build", "st_check", "st_sleep"}

\* C20: a turn of the stream that sees a non-terminal status sends a
\* snapshot and goes on; the turn that sees 'complete' or 'error' sends one
\* snapshot carrying the job's reviews and ends the stream; a terminal
\* snapshot has been sent only by a stream that has ended, an ended stream
\* sends nothing more, and a stream running on a terminal job ends.
C20_StreamEndsOnTerminal ==
    /\ [][(h_pc = "st_check" /\ h_pc' # h_pc) =>
             IF status \in Terminal
             THEN /\ h_last' = "final"
                  /\ h_pc' = "st_ended"
                  /\ h_resp'.has_reviews
                  /\ h_resp'.reviews = job_reviews
             ELSE /\ h_last' = "progress"
                  /\ h_pc' = "st_sleep"
                  /\ ~h_resp'.has_reviews]_vars
    /\ [][(h_pc = "st_ended") => UNCHANGED hvars]_vars
    /\ [](h_last = "final" => h_pc = "st_ended")
    /\ ((status \in Terminal /\ h_pc \in StreamPcs) ~> (h_pc = "st_ended"))

\* the stream has ended on a complete job with the terminal snapshot that
\* carries the reviews
C20_Witness ==
    /\ h_pc = "st_ended"
    /\ h_last = "final"
    /\ status = "complete"
    /\ h_resp.has_reviews
    /\ h_resp.reviews # <<>>

\* ---------------------------------------------------------------- C28
\* C28: in every state of the job, which a status request or the progress
\* stream may read at any moment, review_count is the length of the job's
\* reviews list.
C28_CountMatchesReviews ==
    review_count = Len(job_reviews)

\* ---------------------------------------------------------------- C29
\* C29: in every state in which the job's status is 'complete', which a
\* reader may observe at any moment, its progress is 100 and its message is
\* the final 'Done! Found n reviews'.
C29_CompleteIsFinished ==
    status = "complete" =>
        /\ progress = 100
        /\ message = MsgDone(Len(reviews))

\* ---------------------------------------------------------------- C24
\* C24: an event leaves the queue only in the drain loop, while the status
\* is 'captcha', and it is the oldest one; a tick leaves the drain loop only
\* when the queue is empty, then takes the screenshot, and only then polls
\* the gate classifier.
C24_DrainShotClassify ==
    [][/\ (Len(event_queue') < Len(event_queue)) =>
             /\ pc = "drain"
             /\ status = "captcha"
             /\ event_queue' = Tail(event_queue)
       /\ (pc = "drain" /\ pc' # pc) => (event_queue = <<>> /\ pc' = "shot")
       /\ (pc' = "drain" /\ pc # pc') => pc = "loop_check"
       /\ (pc = "shot" /\ pc' # pc) => pc' = "classify"
       /\ (pc' = "classify" /\ pc # pc') => pc = "shot"]_vars

\* two different events wait in the order they were accepted while the task
\* is in its drain loop
C24_Witness ==
    /\ pc = "drain"
    /\ status = "captcha"
    /\ event_queue = <<"click", "keydown">>

\* ---------------------------------------------------------------- C25
ContentSignals == GateResults \ {"null"}

\* C25: a poll of the gate classifier that yields no content signal, by a
\* falsy result or by an error, leaves the gate uncleared and the status
\* 'captcha' and goes to the sleep before the next tick; the gate is marked
\* cleared only by a poll that yields a content signal; after the sleep the
\* loop tests its timeout again.
C25_InspectionErrorIsGated ==
    [][/\ (pc = "classify" /\ pc' # pc /\ has_content' \notin ContentSignals) =>
             /\ pc' = "sleep"
             /\ ~captcha_solved'
             /\ status = "captcha" /\ status' = "captcha"
       /\ (captcha_solved' /\ ~captcha_solved) =>
             (pc = "classify" /\ has_content' \in ContentSignals)
       /\ (pc = "sleep" /\ pc' # pc) => pc' = "loop_check"]_vars

\* the very first poll raised: no result has ever been bound, and the task
\* is in the sleep of the first tick
C25_Witness ==
    /\ pc = "sleep"
    /\ has_content = "unbound"
    /\ ~captcha_solved
    /\ status = "captcha"

\* ---------------------------------------------------------------- C30
\* C30: an accepted event does not wait for ever: whenever the queue is not
\* empty, the task later stands in its drain loop, whose next step takes the
\* oldest event out and injects it, or the queue has been emptied.
C30_AcceptedIsInjected ==
    (event_queue # <<>>) ~> (pc = "drain" \/ event_queue = <<>>)

\* ---------------------------------------------------------------- C26
\* the third rule: a heading with non-trivial text, a price element, and a
\* title free of the gate keywords
HeadingRule(dom) ==
    /\ dom.h1 # NoHeading /\ dom.h1 > HeadingMin
    /\ dom.price
    /\ dom.title \cap GateKeywords = {}

\* C26: the result of the gate classifier is that of the first rule that
\* matches: reviews-visible iff there is a canonical rating anchor; else
\* ratings-only iff there are at least 3 rating elements; else
\* product-visible iff the heading rule or the add-to-cart rule matches; else
\* gated -- whatever the weaker rules would say.
C26_FirstMatchWins ==
    f_pc = "gate_out" =>
        LET canonical == f_in.canon >= 1
            generic == f_in.canon + f_in.other >= StarsMin
        IN /\ canonical => f_out = "reviews"
           /\ (~canonical /\ generic) => f_out = "ratings"
           /\ (~canonical /\ ~generic /\ HeadingRule(f_in)) => f_out = "product"
           /\ (~canonical /\ ~generic /\ ~HeadingRule(f_in) /\ f_in.cart) =>
                 f_out = "product"
           /\ (~canonical /\ ~generic /\ ~HeadingRule(f_in) /\ ~f_in.cart) =>
                 f_out = "null"

\* a page on which every rule matches was classified by the first one
C26_Witness ==
    /\ f_pc = "gate_out"
    /\ f_in.canon = 1 /\ f_in.other = MaxOther
    /\ f_in.h1 > HeadingMin /\ f_in.price /\ f_in.title = {} /\ f_in.cart
    /\ f_out = "reviews"

\* ---------------------------------------------------------------- C27
\* the names of the strategies in the claimed order
StrategyOrder ==
    <<"next_text", "page_number", "page_number_span", "aria_next",
      "arrow_char", "active_sibling">>

\* the fixed order, one click, failure exactly when nothing is found
NavOrderAndFailure ==
    LET found == NavFound(f_in)
    IN /\ [k \in DOMAIN found |-> found[k].name] = StrategyOrder
       /\ Len(f_out.clicks) <= 1
       /\ (f_out.result = "null") <=> (\A k \in DOMAIN found : found[k].el = 0)
       /\ (f_out.result = "null") <=> (f_out.clicks = <<>>)
       /\ \A k \in DOMAIN found :
             f_out.result = found[k].name =>
                /\ f_out.clicks = <<found[k].el>>
                /\ \A j \in 1 .. (k - 1) : found[j].el = 0

\* what the script clicked is visible, of non-zero size, below the vertical
\* threshold and not disabled
NavClickedSuitable ==
    \A i \in DOMAIN f_out.clicks :
        LET el == f_in[f_out.clicks[i]]
        IN /\ el.w > 0 /\ el.h > 0
           /\ el.top > TopMin
           /\ ~el.disabled /\ ~el.aria_disabled

\* C27: the navigator returns the result of the first strategy, in the order
\* from the 'Next' text to the sibling of the active page, that finds a
\* candidate, clicks that candidate and nothing else, reports failure
\* exactly when no strategy finds one, and a candidate is visible, of
\* non-zero size, below the vertical threshold and not disabled.
C27_OrderedStrategies ==
    f_pc = "nav_out" => (NavOrderAndFailure /\ NavClickedSuitable)

\* ---------------------------------------------------------------- C23
\* a start request was answered in this step
StartAnswered == r_ids' # r_ids \/ r_resp' # r_resp \/ r_url' # r_url

\* the request was accepted: one more id, whose registry entry is a queued
\* job with progress 0 and no reviews, every entry under another id is as
\* before, and one more task, which has not run yet
JobCreated ==
    /\ r_resp' = "ok"
    /\ Len(r_ids') = Len(r_ids) + 1
    /\ SubSeq(r_ids', 1, Len(r_ids)) = r_ids
    /\ LET id == r_ids'[Len(r_ids')]
       IN /\ id \in DOMAIN scrape_jobs'
          /\ scrape_jobs'[id].status = "queued"
          /\ scrape_jobs'[id].progress = 0
          /\ scrape_jobs'[id].reviews = <<>>
          /\ \A k \in DOMAIN scrape_jobs \ {id} :
                k \in DOMAIN scrape_jobs' /\ scrape_jobs'[k] = scrape_jobs[k]
          /\ DOMAIN scrape_jobs' = DOMAIN scrape_jobs \cup {id}
    /\ r_job' = Append(r_job, 0)

\* the request was rejected with an error: no entry, no task
JobRejected ==
    /\ r_resp' \in {"url_required", "invalid_url"}
    /\ UNCHANGED <<scrape_jobs, r_ids, r_job>>

\* a path segment of 15-20 digits ending the url or followed by '?', or else
\* any all-digit path segment longer than 10 digits
PathSegmentId(url) ==
    \E i \in DOMAIN url :
        /\ ~url[i].q
        /\ url[i].digits
        /\ \/ /\ url[i].len >= PidMinLen
              /\ url[i].len <= PidMaxLen
              /\ EndsOrQuery(url, i)
           \/ url[i].len > PidFallbackLen

\* a run of 15-20 digits after a '/' anywhere in the url that ends the url
\* or is followed by '?', or else an all-digit path segment longer than 10
AnySegmentId(url) ==
    \/ \E i \in DOMAIN url :
          /\ url[i].digits
          /\ url[i].len >= PidMinLen
          /\ url[i].len <= PidMaxLen
          /\ EndsOrQuery(url, i)
    \/ \E i \in DOMAIN url :
          ~url[i].q /\ url[i].digits /\ url[i].len > PidFallbackLen

\* C23 as stated: startJob creates a job (a registry entry with status
\* 'queued', progress 0, no reviews, and a background task) if and only if
\* the url is non-empty and has a path segment of 15-20 digits ending the url
\* or followed by '?', or else an all-digit path segment longer than 10
\* digits; otherwise it rejects the request, leaves the registry unchanged
\* and starts no task.
C23_CreatesIffPathSegmentId ==
    [][StartAnswered =>
          IF r_url' # <<>> /\ PathSegmentId(r_url')
          THEN JobCreated
          ELSE JobRejected]_vars

\* C23, amended: startJob creates a job if and only if the url is non-empty
\* and has a run of 15-20 digits after a '/', in its path or in its query
\* string, that ends the url or is followed by '?', or else an all-digit
\* path segment longer than 10 digits; otherwise it rejects the request,
\* leaves the registry unchanged and starts no task; nothing but an accepted
\* request adds an entry or a task.
C23_CreatesIffParsable ==
    /\ [][StartAnswered =>
             IF r_url' # <<>> /\ AnySegmentId(r_url')
             THEN JobCreated
             ELSE JobRejected]_vars
    /\ [][(DOMAIN scrape_jobs' # DOMAIN scrape_jobs \/ Len(r_job') # Len(r_job))
             => (r_resp' = "ok" /\ r_ids' # r_ids)]_vars

\* a request was rejected after another had been accepted, with the entry
\* and the task of the accepted one in place
C23_Witness ==
    /\ r_resp = "invalid_url"
    /\ r_url = <<Part(TRUE, 10)>>
    /\ Len(r_ids) = 1
    /\ scrape_jobs[r_ids[1]].status = "queued"
    /\ r_job = <<0>>

\* ---------------------------------------------------------------- C22
\* C22: a request to forward an input event is accepted if and only if its
\* job exists, the job's browser is not marked closed and the job's status
\* is starting, captcha or loading when the request is examined; an accepted
\* request appends one event to the job's queue and is answered ok; every
\* other request is answered with an error and leaves the queue as it is,
\* and the queue grows by nothing but an accepted request.
C22_EnqueueIffInteractive ==
    /\ [][(h_pc \in {"be_job", "be_nojob"} /\ h_pc' # h_pc) =>
             IF h_pc = "be_job" /\ ~browser_closed /\ status \in Interactive
             THEN h_pc' = "be_put" /\ UNCHANGED event_queue
             ELSE /\ h_pc' = "be_resp"
                  /\ h_last' \in {"not_found", "not_interactive"}
                  /\ UNCHANGED event_queue]_vars
    /\ [][(h_pc = "be_put" /\ h_pc' # h_pc) =>
             /\ h_pc' = "be_resp"
             /\ h_last' = "ok"
             /\ \E evt \in Events : event_queue' = Append(event_queue, evt)]_vars
    /\ [][(Len(event_queue') > Len(event_queue)) =>
             \/ h_pc = "be_put" /\ h_pc' = "be_resp"
             \/ ~browser_closed /\ status \in Interactive]_vars

\* a request examined during the captcha wait has been answered ok and its
\* event is in the queue
C22_Witness ==
    /\ h_pc = "be_resp"
    /\ h_last = "ok"
    /\ status = "captcha"
    /\ event_queue = <<"click">>

\* ---------------------------------------------------------------- C21
\* the frames the screenshot stream sends
Frames == {"frame", "frame_again"}

\* C21: a turn of the screenshot stream goes on to read and send a frame
\* only if it has seen the status starting, captcha or loading; the turn
\* that sees another status sends one 'solved' message and ends the stream,
\* after which the stream sends nothing; a frame is sent by nothing but the
\* last step of such a turn; and the stream sends no image that it has sent
\* before.
C21_FramesWhileInteractive ==
    /\ [][(h_pc = "bs_poll" /\ h_pc' # h_pc) =>
             IF status \in Interactive
             THEN h_pc' = "bs_shot" /\ UNCHANGED h_last
             ELSE h_pc' = "bs_ended" /\ h_last' = "solved"]_vars
    /\ [][(h_pc' = "bs_shot" /\ h_pc # h_pc') => h_pc = "bs_poll"]_vars
    /\ [][(h_pc' = "bs_upd" /\ h_pc # h_pc') => h_pc = "bs_shot"]_vars
    /\ [][(h_pc' = "bs_send" /\ h_pc # h_pc') => h_pc = "bs_upd"]_vars
    /\ [][(h_last' \in Frames /\ h_last \notin Frames) => h_pc = "bs_send"]_vars
    /\ [][(h_pc = "bs_ended") => UNCHANGED <<h_pc, h_last>>]_vars
    /\ [](h_last # "frame_again")

\* ---------------------------------------------------------------- C31
\* the positions of the task in its except handler
ExceptPcs == {"exc_status", "exc_msg", "exc_flag"}

\* C31: the step in which an exception is raised and the steps of the except
\* handler leave reviews, review_count, current_page, progress and max_pages
\* of the job as they are, and the handler writes nothing but status,
\* message and the closed flag; when the exception is raised while the
\* status is 'scraping', the job's reviews are all the reviews merged so
\* far; and the terminal snapshot that the progress stream sends for a job
\* in 'error' carries the job's reviews.
C31_ErrorKeepsPublished ==
    /\ [][(fault' # fault \/ pc \in ExceptPcs) => UNCHANGED pubvars]_vars
    /\ [][(pc \in ExceptPcs) => UNCHANGED screenshot]_vars
    /\ [][(fault' # fault /\ status = "scraping") =>
             (job_reviews' = reviews' /\ reviews' = reviews)]_vars
    /\ [][(h_pc = "st_check" /\ h_pc' = "st_ended" /\ status = "error") =>
             (h_resp'.has_reviews /\ h_resp'.reviews = job_reviews)]_vars
    /\ [](status = "error" => job_reviews = reviews)

\* the stream has ended on a job that failed while turning the page, with
\* the two reviews of the page merged before in its terminal snapshot
C31_Witness ==
    /\ h_pc = "st_ended"
    /\ status = "error"
    /\ fault = "page"
    /\ pc = "done"
    /\ h_resp.has_reviews
    /\ h_resp.reviews = <<rA1, rB>>
    /\ job_reviews = <<rA1, rB>>
    /\ review_count = 2

====
